---- MODULE Spec2Model ----
(***************************************************************************)
(* Prediction core of the Health-Tracker backend                           *)
(* (backend/predictor/ml_predictor.py): the knowledge base read through    *)
(* the ORM, NaiveBayesPredictor instances, the joblib artifact on disk and *)
(* the calls (train / predict / hybrid predict) that threads of the        *)
(* process run against them.                                               *)
(*                                                                         *)
(* Numbers: a confidence is kept in hundredths of a percent (an integer    *)
(* 0..10000), i.e. the value after round(x, 2); probabilities are exact    *)
(* rationals N_c / T over a common denominator.                            *)
(***************************************************************************)
EXTENDS Integers, Sequences, FiniteSets, TLC

(***************************************************************************)
(* Universe of rows the tables may hold.                                   *)
(***************************************************************************)
SymIds == {1, 2}
DisIds == 1..6
NoUser == "anonymous"
Users == {"u1"}
NULL == 0

\* Symptom.Meta.ordering = ['name'].  Symptom 1 is 'Fever', symptom 2 is
\* 'Cough' (seed_data.py), so the name order is the reverse of the id order.
SymptomNameKey(s) == 0 - s

\* Disease.Meta.ordering = ['name']; a disease is identified with its unique
\* name, names ordered as the identifiers.
DiseaseNameKey(d) == d

\* UserSubmission ... [:1000]
HistoryCap == 1000

\* HybridPredictor.predict asks the classifier for top_k=5 and returns [:3];
\* _rule_based_predict returns [:5].
HybridTopK == 5
HybridCut == 3
RuleCut == 5

(***************************************************************************)
(* Generic helpers.                                                        *)
(***************************************************************************)
RECURSIVE SumSeq(_)
SumSeq(s) ==
    IF s = << >> THEN 0
    ELSE IF Len(s) = 1 THEN s[1]
    ELSE LET h == Len(s) \div 2
         IN  SumSeq(SubSeq(s, 1, h)) + SumSeq(SubSeq(s, h + 1, Len(s)))

RECURSIVE Pow(_, _)
Pow(a, b) == IF b = 0 THEN 1 ELSE a * Pow(a, b - 1)

RECURSIVE ProdSeq(_)
ProdSeq(s) == IF s = << >> THEN 1 ELSE Head(s) * ProdSeq(Tail(s))

Min2(a, b) == IF a <= b THEN a ELSE b

Range(s) == {s[i] : i \in 1..Len(s)}

Reverse(s) == [i \in 1..Len(s) |-> s[Len(s) + 1 - i]]

Prefix(s, n) == SubSeq(s, 1, Min2(n, Len(s)))

RECURSIVE FilterSeq(_, _)
FilterSeq(s, keep) ==
    IF s = << >> THEN << >>
    ELSE (IF Head(s) \in keep THEN <<Head(s)>> ELSE << >>) \o FilterSeq(Tail(s), keep)

\* round(x, 2) of the exact rational num/den (den > 0), in hundredths when
\* num/den is already expressed in hundredths: nearest integer, ties to even.
RoundDiv(num, den) ==
    LET q == num \div den
        r == num % den
    IN  IF 2 * r > den \/ (2 * r = den /\ q % 2 = 1) THEN q + 1 ELSE q

(***************************************************************************)
(* ORM orderings.                                                          *)
(***************************************************************************)
RECURSIVE SymptomsByName(_)
SymptomsByName(S) ==
    IF S = {} THEN << >>
    ELSE LET m == CHOOSE x \in S : \A z \in S : SymptomNameKey(x) <= SymptomNameKey(z)
         IN  <<m>> \o SymptomsByName(S \ {m})

RECURSIVE DiseasesByName(_)
DiseasesByName(S) ==
    IF S = {} THEN << >>
    ELSE LET m == CHOOSE x \in S : \A z \in S : DiseaseNameKey(x) <= DiseaseNameKey(z)
         IN  <<m>> \o DiseasesByName(S \ {m})

(***************************************************************************)
(* Feature encoder.  symptom_encoder is kept as the sequence of symptom    *)
(* ids in slot order: enc[i] = s  <=>  symptom_encoder[s] = i - 1.         *)
(***************************************************************************)
\* symptom_encoder.get(s): the slot (1-based) or NULL.
SlotOf(enc, s) ==
    IF \E i \in 1..Len(enc) : enc[i] = s
    THEN CHOOSE i \in 1..Len(enc) : enc[i] = s
    ELSE NULL

\* A variant that looks the slot up with a default, encoder.get(id, 0): an id
\* the mapping does not hold is written to the first slot.
RECURSIVE FillVectorDefaultSlot(_, _, _)
FillVectorDefaultSlot(vec, enc, entries) ==
    IF entries = << >> THEN vec
    ELSE LET e == Head(entries)
             found == SlotOf(enc, e.id)
             idx == IF found = NULL /\ Len(vec) > 0 THEN 1 ELSE found
         IN  FillVectorDefaultSlot(IF idx # NULL THEN [vec EXCEPT ![idx] = e.value] ELSE vec,
                                   enc, Tail(entries))

\* feature_vector = np.zeros(n); for each entry: idx = encoder.get(id);
\* if idx is not None: feature_vector[idx] = value.  `entries` is a sequence of
\* [id, value]; a later entry for the same id overwrites an earlier one.
RECURSIVE FillVector(_, _, _)
FillVector(vec, enc, entries) ==
    IF entries = << >> THEN vec
    ELSE LET e == Head(entries)
             idx == SlotOf(enc, e.id)
         IN  FillVector(IF idx # NULL THEN [vec EXCEPT ![idx] = e.value] ELSE vec,
                        enc, Tail(entries))

Zeros(n) == [i \in 1..n |-> 0]

(***************************************************************************)
(* State.                                                                  *)
(***************************************************************************)
VARIABLES
    symptoms,       \* Symptom table: the set of symptom ids
    diseases,       \* Disease table: the set of disease ids (names)
    dsw,            \* DiseaseSymptom table: dsw[d][s] = weight, 0 = no row
    submissions,    \* UserSubmission rows in creation order, with their
                    \* SubmissionSymptom rows: [user, primary, syms]
    dpreds,         \* DiseasePrediction rows: [sub, disease, conf]
    kbOps,          \* number of curation operations done so far
    requests,       \* number of requests that stored records so far
    file,           \* the artifact at model_path
    pred,           \* pred[p]: fields of NaiveBayesPredictor instance p
    call,           \* call[t]: the call thread t is running, or last ran
    nextGen,        \* number of train() executions started so far
    genEnc,         \* genEnc[g]: the mapping train() execution g built
    trainReturned,  \* highest g whose explicit train() has returned
    last,           \* the hybrid call that returned last, while nothing changed
    concurrent,     \* whether the process serves calls on two threads
    stableArgsort,  \* whether this build's np.argsort keeps ties in index order
    users,          \* User table: rows [username, email] in creation order
    minted,         \* the JWTs signed so far
    expired,        \* the signed tokens whose lifetime is over
    blacklist,      \* BlacklistedToken table: the blacklisted refresh tokens
    loggedOut,      \* refresh tokens carried by the logouts that returned 200
    http            \* http[t]: the users request thread t is serving, or last served

vars == <<symptoms, diseases, dsw, submissions, dpreds, kbOps, requests, file, pred, call,
          nextGen, genEnc, trainReturned, last, concurrent, stableArgsort,
          users, minted, expired, blacklist, loggedOut, http>>

\* What no action changes.
config == <<concurrent, stableArgsort>>

\* The state of the users app, which no call of the predictor app touches.
authVars == <<users, minted, expired, blacklist, loggedOut, http>>

dbVars == <<symptoms, diseases, dsw, submissions, dpreds>>

opCounts == <<kbOps, requests>>

Threads == {1, 2}

\* The instances: one that lives as long as the process and is shared by its
\* threads, and for each thread the instance the request it is serving built
\* (PredictionViewSet.__init__, views.py line 27), dropped with the request.
SharedInstance == "shared"
RequestInstance(t) == IF t = 1 THEN "request1" ELSE "request2"
Predictors == {SharedInstance} \cup {RequestInstance(t) : t \in Threads}

\* Bounds of the exploration.
MaxTrains == 2
MaxKbOps == 1
MaxRequests == 1

(***************************************************************************)
(* prepare_training_data (lines 26-74).                                    *)
(***************************************************************************)
\* all_symptoms = Symptom.objects.all(); {symptom.id: idx for idx, ...}
CurrentEncoder == SymptomsByName(symptoms)

\* One vector per disease from its DiseaseSymptom rows (weight as value).
DiseaseVector(enc, d) ==
    FillVector(Zeros(Len(enc)), enc,
               [i \in 1..Len(enc) |-> [id |-> enc[i], value |-> dsw[d][enc[i]]]])

\* One vector per submission from its SubmissionSymptom rows (severity).
SubmissionVector(enc, sub) ==
    FillVector(Zeros(Len(enc)), enc,
               [i \in 1..Len(enc) |-> [id |-> enc[i], value |-> sub.syms[enc[i]]]])

\* UserSubmission (ordering -created_at) .filter(primary_prediction__isnull=
\* False)[:1000]
WithPrimary(subs) == SelectSeq(subs, LAMBDA sub : sub.primary # NULL)

\* A variant without the [:1000] of line 60: every submission with a primary
\* prediction becomes a sample.
EligibleSubmissionsUncapped == WithPrimary(Reverse(submissions))

EligibleSubmissions == Prefix(WithPrimary(Reverse(submissions)), HistoryCap)

\* Returns the mapping it stored in self.symptom_encoder and (X, y).
prepare_training_data ==
    LET enc == CurrentEncoder
        ds == DiseasesByName(diseases)
        subs == EligibleSubmissions
    IN  [enc |-> enc,
         X |-> [i \in 1..Len(ds) |-> DiseaseVector(enc, ds[i])]
               \o [i \in 1..Len(subs) |-> SubmissionVector(enc, subs[i])],
         y |-> ds \o [i \in 1..Len(subs) |-> subs[i].primary]]

(***************************************************************************)
(* LabelEncoder.fit_transform and MultinomialNB(alpha=1.0).fit.            *)
(***************************************************************************)
\* classes_ = np.unique(y): the distinct labels, sorted.
LabelClasses(y) == DiseasesByName(Range(y))

\* class_count_[c] and feature_count_[c][i] over the samples of class c.
ModelFit(X, y, classes) ==
    LET n == IF X = << >> THEN 0 ELSE Len(X[1])
        rows(c) == {j \in 1..Len(X) : y[j] = classes[c]}
        colsum(J, i) == SumSeq([j \in 1..Len(X) |-> IF j \in J THEN X[j][i] ELSE 0])
    IN  [n |-> n,
         cc |-> [c \in 1..Len(classes) |-> Cardinality(rows(c))],
         fc |-> [c \in 1..Len(classes) |-> [i \in 1..n |-> colsum(rows(c), i)]]]

\* The joint likelihood of class c for vector v with Laplace smoothing alpha = 1:
\* class_count[c] * PROD_i ((fc[c][i] + 1) / SUM_j (fc[c][j] + 1)) ^ v[i],
\* as numerator and denominator (the common factor 1/SUM class_count dropped).
JointNum(m, c, v) ==
    m.cc[c] * ProdSeq([i \in 1..m.n |-> Pow(m.fc[c][i] + 1, v[i])])

JointDen(m, c, v) ==
    Pow(SumSeq([i \in 1..m.n |-> m.fc[c][i] + 1]), SumSeq(v))

\* predict_proba: probabilities[c] = Scaled[c] / SUM Scaled, the joint
\* likelihoods brought to the common denominator PROD_c JointDen(c).
ScaledLikelihood(m, v) ==
    LET C == Len(m.cc)
    IN  [c \in 1..C |->
            JointNum(m, c, v)
            * ProdSeq([e \in 1..C |-> IF e = c THEN 1 ELSE JointDen(m, e, v)])]

\* round(probabilities[idx] * 100, 2) in hundredths: round(10000 * N / T),
\* by long division so that no intermediate exceeds 10 * T.
RECURSIVE LongDiv(_, _, _, _)
LongDiv(q, r, T, digits) ==
    IF digits = 0 THEN [q |-> q, r |-> r]
    ELSE LongDiv(10 * q + ((10 * r) \div T), (10 * r) % T, T, digits - 1)

Confidence(N, T) ==
    LET d == LongDiv(N \div T, N % T, T, 4)
    IN  IF 2 * d.r > T \/ (2 * d.r = T /\ d.q % 2 = 1) THEN d.q + 1 ELSE d.q

(***************************************************************************)
(* np.argsort(probabilities)[-top_k:][::-1]  (line 128).                   *)
(***************************************************************************)
\* Indices in ascending order of value.  Equal values keep index order when
\* the sort is stable, and come in the opposite order otherwise (argsort's
\* default kind is not a stable sort; the order of ties depends on the build).
RECURSIVE ArgsortFrom(_, _, _)
ArgsortFrom(probs, I, stable) ==
    IF I = {} THEN << >>
    ELSE LET m == CHOOSE i \in I : \A j \in I :
                     \/ probs[i] < probs[j]
                     \/ probs[i] = probs[j] /\ (IF stable THEN i <= j ELSE i >= j)
         IN  <<m>> \o ArgsortFrom(probs, I \ {m}, stable)

Argsort(probs, stable) == ArgsortFrom(probs, 1..Len(probs), stable)

LastK(s, k) == IF k >= Len(s) THEN s ELSE SubSeq(s, Len(s) - k + 1, Len(s))

TopIndices(probs, k, stable) == Reverse(LastK(Argsort(probs, stable), k))

(***************************************************************************)
(* Sorting as list.sort(key=confidence, reverse=True): stable, descending. *)
(***************************************************************************)
RECURSIVE InsertDesc(_, _)
InsertDesc(sorted, e) ==
    IF sorted = << >> THEN <<e>>
    ELSE IF Head(sorted).confidence >= e.confidence
         THEN <<Head(sorted)>> \o InsertDesc(Tail(sorted), e)
         ELSE <<e>> \o sorted

RECURSIVE SortDesc(_)
SortDesc(s) ==
    IF s = << >> THEN << >>
    ELSE InsertDesc(SortDesc(SubSeq(s, 1, Len(s) - 1)), s[Len(s)])

(***************************************************************************)
(* NaiveBayesPredictor.predict, lines 115-145, on the fields `ps` of the   *)
(* instance.  symptom_data is a sequence of [id, severity].                *)
(***************************************************************************)
Entries(symptom_data) ==
    [i \in 1..Len(symptom_data) |->
        [id |-> symptom_data[i].id, value |-> symptom_data[i].severity]]

\* lines 116-122
FeatureVector(enc, symptom_data) ==
    FillVector(Zeros(Len(enc)), enc, Entries(symptom_data))

\* A variant without the try/except of lines 132-143: Disease.DoesNotExist
\* ends the loop and nothing is returned from there on.
RECURSIVE ResolveTopAborting(_, _, _, _)
ResolveTopAborting(top, classes, probs, known) ==
    IF top = << >> THEN << >>
    ELSE LET idx == Head(top)
             name == classes[idx]
         IN  IF name \in known
             THEN <<[disease |-> name,
                     confidence |-> Confidence(probs[idx], SumSeq(probs))]>>
                  \o ResolveTopAborting(Tail(top), classes, probs, known)
             ELSE << >>

\* lines 130-143: the labels of top_indices that resolve to a Disease row.
RECURSIVE ResolveTop(_, _, _, _)
ResolveTop(top, classes, probs, known) ==
    IF top = << >> THEN << >>
    ELSE LET idx == Head(top)
             name == classes[idx]
         IN  (IF name \in known
              THEN <<[disease |-> name,
                      confidence |-> Confidence(probs[idx], SumSeq(probs))]>>
              ELSE << >>)
             \o ResolveTop(Tail(top), classes, probs, known)

\* The outcome of lines 115-145: an error, or the list of predictions, with
\* the intermediate values the code computes on the way.
NBCompute(ps, symptom_data, top_k, stable, known) ==
    LET fv == FeatureVector(ps.enc.map, symptom_data)
        m == ps.model
        fitted == m.gen # 0
        probs == IF fitted /\ Len(fv) = m.n THEN ScaledLikelihood(m, fv) ELSE << >>
        top == TopIndices(probs, top_k, stable)
        err == IF ~fitted THEN "NotFitted"
               ELSE IF Len(fv) # m.n THEN "FeatureMismatch"
               ELSE IF \E i \in 1..Len(top) : top[i] > Len(ps.classes.names)
                    THEN "IndexError"
               ELSE "none"
    IN  [err |-> err,
         fv |-> fv,
         probs |-> probs,
         top |-> IF err = "none" THEN top ELSE << >>,
         labels |-> IF err = "none"
                    THEN [i \in 1..Len(top) |-> ps.classes.names[top[i]]]
                    ELSE << >>,
         ml |-> IF err = "none"
                THEN ResolveTop(top, ps.classes.names, probs, known)
                ELSE << >>]

(***************************************************************************)
(* HybridPredictor._rule_based_predict, lines 194-248.                     *)
(***************************************************************************)
\* symptom_severities = {s['id']: s['severity'] ...}: the last entry wins.
SeverityOf(symptom_data, s) ==
    LET I == {i \in 1..Len(symptom_data) : symptom_data[i].id = s}
    IN  symptom_data[CHOOSE i \in I : \A j \in I : j <= i].severity

InputIds(symptom_data) == {symptom_data[i].id : i \in 1..Len(symptom_data)}

\* A variant without filter(submission__user=user): predictions of every
\* user are counted.
UserHistoryOfAnyUser(user, d) ==
    IF user = NoUser THEN 0
    ELSE Cardinality({i \in 1..Len(dpreds) :
                         dpreds[i].conf >= 7000 /\ dpreds[i].disease = d})

\* A variant without confidence_score__gte=70: every stored prediction of
\* the user is counted.
UserHistoryOfAnyConfidence(user, d) ==
    IF user = NoUser THEN 0
    ELSE Cardinality({i \in 1..Len(dpreds) :
                         /\ submissions[dpreds[i].sub].user = user
                         /\ dpreds[i].disease = d})

\* lines 203-212: per disease, the number of the user's stored predictions
\* with confidence_score >= 70.
UserHistory(user, d) ==
    IF user = NoUser THEN 0
    ELSE Cardinality({i \in 1..Len(dpreds) :
                         /\ submissions[dpreds[i].sub].user = user
                         /\ dpreds[i].conf >= 7000
                         /\ dpreds[i].disease = d})

\* disease.disease_symptoms.filter(symptom_id__in=symptom_ids)
Matched(d, symptom_data) == {s \in InputIds(symptom_data) : dsw[d][s] > 0}

KnownSymptomsOf(d) == {s \in SymIds : dsw[d][s] > 0}

RECURSIVE SumOver(_, _)
SumOver(S, f) ==
    IF S = {} THEN 0
    ELSE LET x == CHOOSE x \in S : TRUE IN f[x] + SumOver(S \ {x}, f)

\* A variant that adds the bonus without the min(..., 100) of line 240.
RuleConfidenceUnclamped(d, symptom_data, user) ==
    LET M == Matched(d, symptom_data)
        matched_count == Cardinality(M)
        total == Cardinality(KnownSymptomsOf(d))
        wsev == SumOver(M, [s \in M |-> dsw[d][s] * SeverityOf(symptom_data, s)])
        maxw == SumOver(M, [s \in M |-> dsw[d][s]])
        den == total * maxw
        base == 4000 * matched_count * maxw + 600 * total * wsev
        bonus == Min2(UserHistory(user, d) * 3, 15)
    IN  RoundDiv(base + bonus * 100 * den, den)

\* A variant with the two shares exchanged: 0.6 x match + 0.4 x weight.
RuleConfidenceSharesSwapped(d, symptom_data, user) ==
    LET M == Matched(d, symptom_data)
        matched_count == Cardinality(M)
        total == Cardinality(KnownSymptomsOf(d))
        wsev == SumOver(M, [s \in M |-> dsw[d][s] * SeverityOf(symptom_data, s)])
        maxw == SumOver(M, [s \in M |-> dsw[d][s]])
    IN  RoundDiv(6000 * matched_count * maxw + 400 * total * wsev, total * maxw)

\* lines 218-240, before rounding: the confidence as the exact rational
\* num/den in hundredths of a percent.
\*   match_percentage  = matched/total * 100
\*   weight_percentage = (SUM w*(sev/10)) / (SUM w) * 100
\*   confidence = 0.4*match + 0.6*weight  [+ min(count*3, 15), capped at 100]
RuleConfidence(d, symptom_data, user) ==
    LET M == Matched(d, symptom_data)
        matched_count == Cardinality(M)
        total == Cardinality(KnownSymptomsOf(d))
        wsev == SumOver(M, [s \in M |-> dsw[d][s] * SeverityOf(symptom_data, s)])
        maxw == SumOver(M, [s \in M |-> dsw[d][s]])
        den == total * maxw
        base == 4000 * matched_count * maxw + 600 * total * wsev
        cnt == UserHistory(user, d)
        bonus == Min2(cnt * 3, 15)
        num == IF cnt > 0 THEN Min2(base + bonus * 100 * den, 10000 * den) ELSE base
    IN  RoundDiv(num, den)

\* A variant without the [:5] of line 248: every scored disease is returned.
rule_based_predict_uncut(symptom_data, user) ==
    LET ds == DiseasesByName(diseases)
        scored == FilterSeq(ds, {d \in diseases : Matched(d, symptom_data) # {}})
        disease_scores ==
            [i \in 1..Len(scored) |->
                [disease |-> scored[i],
                 confidence |-> RuleConfidence(scored[i], symptom_data, user)]]
    IN  SortDesc(disease_scores)

\* lines 214-248: score every disease that shares a symptom with the input,
\* sort descending by confidence, keep the first five.
rule_based_predict(symptom_data, user) ==
    LET ds == DiseasesByName(diseases)
        scored == FilterSeq(ds, {d \in diseases : Matched(d, symptom_data) # {}})
        disease_scores ==
            [i \in 1..Len(scored) |->
                [disease |-> scored[i],
                 confidence |-> RuleConfidence(scored[i], symptom_data, user)]]
    IN  Prefix(SortDesc(disease_scores), RuleCut)

(***************************************************************************)
(* HybridPredictor._combine_predictions, lines 250-294.                    *)
(***************************************************************************)
ConfIn(list, d) ==
    IF \E i \in 1..Len(list) : list[i].disease = d
    THEN list[CHOOSE i \in 1..Len(list) : list[i].disease = d].confidence
    ELSE 0

Diseases(list) == {list[i].disease : i \in 1..Len(list)}

\* A variant with the two weights exchanged: 0.4 x ml + 0.6 x rule.
combine_predictions_weights_swapped(ml_predictions, rule_predictions) ==
    LET mlOrder == [i \in 1..Len(ml_predictions) |-> ml_predictions[i].disease]
        ruleOrder == [i \in 1..Len(rule_predictions) |-> rule_predictions[i].disease]
        keys == mlOrder \o FilterSeq(ruleOrder, Diseases(rule_predictions)
                                                 \ Diseases(ml_predictions))
        final_predictions ==
            [i \in 1..Len(keys) |->
                [disease |-> keys[i],
                 confidence |-> RoundDiv(4 * ConfIn(ml_predictions, keys[i])
                                         + 6 * ConfIn(rule_predictions, keys[i]), 10)]]
    IN  SortDesc(final_predictions)

\* A variant that fills the dictionary from the rule list first and then
\* from the ML list.
combine_predictions_rule_first(ml_predictions, rule_predictions) ==
    LET mlOrder == [i \in 1..Len(ml_predictions) |-> ml_predictions[i].disease]
        ruleOrder == [i \in 1..Len(rule_predictions) |-> rule_predictions[i].disease]
        keys == ruleOrder \o FilterSeq(mlOrder, Diseases(ml_predictions)
                                                \ Diseases(rule_predictions))
        final_predictions ==
            [i \in 1..Len(keys) |->
                [disease |-> keys[i],
                 confidence |-> RoundDiv(6 * ConfIn(ml_predictions, keys[i])
                                         + 4 * ConfIn(rule_predictions, keys[i]), 10)]]
    IN  SortDesc(final_predictions)

combine_predictions(ml_predictions, rule_predictions) ==
    LET mlOrder == [i \in 1..Len(ml_predictions) |-> ml_predictions[i].disease]
        ruleOrder == [i \in 1..Len(rule_predictions) |-> rule_predictions[i].disease]
        \* dict insertion order: ML entries, then the rule-only entries
        keys == mlOrder \o FilterSeq(ruleOrder, Diseases(rule_predictions)
                                                 \ Diseases(ml_predictions))
        final_predictions ==
            [i \in 1..Len(keys) |->
                [disease |-> keys[i],
                 confidence |-> RoundDiv(6 * ConfIn(ml_predictions, keys[i])
                                         + 4 * ConfIn(rule_predictions, keys[i]), 10)]]
    IN  SortDesc(final_predictions)

(***************************************************************************)
(* Instances, artifact and calls.                                          *)
(***************************************************************************)
\* NaiveBayesPredictor.__init__ (lines 18-24): an unfitted model and label
\* encoder, an empty mapping, is_trained False.  gen is the train() execution
\* that produced a field (0: none); it is bookkeeping, not program state.
FreshPredictor ==
    [is_trained |-> FALSE,
     enc |-> [gen |-> 0, map |-> << >>],
     classes |-> [gen |-> 0, names |-> << >>],
     model |-> [gen |-> 0, n |-> 0, cc |-> << >>, fc |-> << >>]]

\* The artifact: absent, opened for writing and still incomplete, or complete.
NoFile == [state |-> "absent", data |-> FreshPredictor]
PartialFile == [state |-> "partial", data |-> FreshPredictor]

Gens(ps) == <<ps.enc.gen, ps.classes.gen, ps.model.gen>>

NoLast ==
    [valid |-> FALSE, symptom_data |-> << >>, user |-> NoUser, lazy |-> FALSE,
     gens |-> Gens(FreshPredictor), result |-> << >>]

IdleCall ==
    [pc |-> "idle", op |-> "none", p |-> SharedInstance, symptom_data |-> << >>, top_k |-> 0,
     user |-> NoUser, gen |-> 0, X |-> << >>, y |-> << >>,
     wasTrained |-> FALSE, sawFile |-> "none", didLoad |-> FALSE, didTrain |-> FALSE,
     wrote |-> FALSE, startAfter |-> 0, prev |-> NoLast,
     startFile |-> NoFile, startSymptoms |-> {}, samples |-> 0,
     used |-> FreshPredictor, known |-> {},
     fv |-> << >>, probs |-> << >>, top |-> << >>, labels |-> << >>,
     ml |-> << >>, rule |-> << >>, result |-> << >>, err |-> "none",
     raw |-> << >>, combined |-> << >>, status |-> 0,
     severity_score |-> 0, severity_category |-> "NORMAL",
     before |-> [submissions |-> << >>, dpreds |-> << >>],
     text_field |-> << >>, recommendations |-> << >>]

Busy(t) == call[t].pc \notin {"idle", "done"}

\* A call that has finished hands its outcome to its caller before anything
\* else is scheduled.
Quiet == \A t \in Threads : call[t].pc # "done"

\* Threads are interchangeable: thread 2 starts a call only while thread 1 runs
\* one.  A thread calls the shared instance or the instance of its own request.
MayStart(t, p) ==
    /\ Quiet
    /\ ~Busy(t)
    /\ t = 2 => concurrent /\ Busy(1)
    /\ p \in {SharedInstance, RequestInstance(t)}

Max2(a, b) == IF a >= b THEN a ELSE b

(***************************************************************************)
(* train (lines 76-99) and save_model (lines 147-156), statement by        *)
(* statement: each step is one point where another thread may run.         *)
(***************************************************************************)
\* line 80: X, y = self.prepare_training_data(); the mapping is stored in
\* self.symptom_encoder before anything is checked (line 37).
BeginTraining(t, p, c) ==
    LET g == nextGen + 1
        d == prepare_training_data
    IN  /\ nextGen' = g
        /\ genEnc' = [genEnc EXCEPT ![g] = d.enc]
        /\ pred' = [pred EXCEPT ![p].enc = [gen |-> g, map |-> d.enc]]
        /\ call' = [call EXCEPT ![t] = [c EXCEPT !.pc = "t_check", !.p = p, !.gen = g,
                                                !.X = d.X, !.y = d.y, !.didTrain = TRUE,
                                                !.samples = Len(d.X)]]

StartTrain(t, p) ==
    /\ MayStart(t, p)
    /\ nextGen < MaxTrains
    /\ BeginTraining(t, p, [IdleCall EXCEPT !.op = "train", !.startAfter = trainReturned,
                                            !.startFile = file,
                                            !.startSymptoms = symptoms])
    /\ last' = NoLast
    /\ UNCHANGED <<dbVars, opCounts, file, trainReturned, config, authVars>>

\* A variant without the check of lines 82-83: an empty training set goes on
\* to be persisted.
TrainCheckUnguarded(c, ps) ==
    IF Len(c.X) = 0
    THEN [c |-> [c EXCEPT !.pc = "t_open", !.X = << >>, !.y = << >>],
          ps |-> ps]
    ELSE [c |-> [c EXCEPT !.pc = "t_fit"],
          ps |-> [ps EXCEPT !.classes = [gen |-> c.gen, names |-> LabelClasses(c.y)]]]

\* lines 82-86: raise ValueError on an empty X, else fit the label encoder.
TrainCheckOutcome(c, ps) ==
    IF Len(c.X) = 0
    THEN [c |-> [c EXCEPT !.pc = "done", !.err = "NoTrainingData", !.X = << >>, !.y = << >>],
          ps |-> ps]
    ELSE [c |-> [c EXCEPT !.pc = "t_fit"],
          ps |-> [ps EXCEPT !.classes = [gen |-> c.gen, names |-> LabelClasses(c.y)]]]

TrainCheck(t) ==
    /\ Quiet
    /\ call[t].pc = "t_check"
    /\ LET o == TrainCheckOutcome(call[t], pred[call[t].p])
       IN  /\ call' = [call EXCEPT ![t] = o.c]
           /\ pred' = [pred EXCEPT ![call[t].p] = o.ps]
    /\ UNCHANGED <<dbVars, opCounts, file, nextGen, genEnc, trainReturned, last,
                   config, authVars>>

\* lines 89-90: self.model.fit(X, y_encoded); self.is_trained = True.
\* MultinomialNB.fit rejects an array with 0 features.
TrainFitOutcome(c, ps) ==
    IF Len(c.X[1]) = 0
    THEN [c |-> [c EXCEPT !.pc = "done", !.err = "FitError", !.X = << >>, !.y = << >>],
          ps |-> ps]
    ELSE [c |-> [c EXCEPT !.pc = "t_open", !.X = << >>, !.y = << >>],
          ps |-> [ps EXCEPT !.model = [gen |-> c.gen]
                                      @@ ModelFit(c.X, c.y, LabelClasses(c.y)),
                            !.is_trained = TRUE]]

TrainFit(t) ==
    /\ Quiet
    /\ call[t].pc = "t_fit"
    /\ LET o == TrainFitOutcome(call[t], pred[call[t].p])
       IN  /\ call' = [call EXCEPT ![t] = o.c]
           /\ pred' = [pred EXCEPT ![call[t].p] = o.ps]
    /\ UNCHANGED <<dbVars, opCounts, file, nextGen, genEnc, trainReturned, last,
                   config, authVars>>

\* lines 95-99: what train returns, read from the instance as it returns.
TrainResult(c, ps) ==
    [samples_trained |-> c.samples,
     diseases |-> Len(ps.classes.names),
     symptoms |-> Len(ps.enc.map)]

\* line 151: joblib.dump(..., self.model_path) opens the path for writing,
\* which truncates the artifact that was there.
SaveOpen(t) ==
    /\ Quiet
    /\ call[t].pc = "t_open"
    /\ file' = PartialFile
    /\ call' = [call EXCEPT ![t].pc = "t_write", ![t].wrote = TRUE]
    /\ UNCHANGED <<dbVars, opCounts, pred, nextGen, genEnc, trainReturned, last,
                   config, authVars>>

\* A variant that leaves 'label_encoder' out of the pickled dictionary: the
\* restored instance keeps the unfitted encoder of its constructor.
save_model_without_labels(ps) ==
    [state |-> "complete", data |-> [ps EXCEPT !.classes = FreshPredictor.classes]]

\* lines 151-156: the four fields of the instance are pickled and the file is
\* closed; then train returns (lines 95-99), to its caller or to predict.
save_model(ps) == [state |-> "complete", data |-> ps]

SaveWrite(t) ==
    /\ Quiet
    /\ call[t].pc = "t_write"
    /\ file' = save_model(pred[call[t].p])
    /\ IF call[t].op = "train"
       THEN /\ call' = [call EXCEPT ![t].pc = "done"]
            /\ trainReturned' = Max2(trainReturned, call[t].gen)
       ELSE /\ call' = [call EXCEPT ![t].pc = "p_compute"]
            /\ trainReturned' = trainReturned
    /\ UNCHANGED <<dbVars, opCounts, pred, nextGen, genEnc, last, config, authVars>>

(***************************************************************************)
(* predict (lines 101-145) and HybridPredictor.predict (lines 179-192).    *)
(***************************************************************************)
\* line 112: if not self.is_trained: self.load_model()
BeginPredict(t, p, c) ==
    /\ MayStart(t, p)
    /\ pred[p].is_trained \/ file.state # "absent" \/ nextGen < MaxTrains
    /\ call' = [call EXCEPT ![t] =
                  [c EXCEPT !.p = p, !.startAfter = trainReturned,
                            !.startFile = file, !.startSymptoms = symptoms,
                            !.wasTrained = pred[p].is_trained,
                            !.prev = IF /\ c.op = "hybrid" /\ last.valid
                                        /\ last.symptom_data = c.symptom_data
                                        /\ last.user = c.user
                                     THEN last ELSE NoLast,
                            !.pc = IF pred[p].is_trained THEN "p_compute" ELSE "p_load"]]
    /\ last' = NoLast
    /\ UNCHANGED <<dbVars, opCounts, file, pred, nextGen, genEnc, trainReturned, config, authVars>>

StartPredict(t, p, symptom_data, top_k) ==
    BeginPredict(t, p, [IdleCall EXCEPT !.op = "predict", !.symptom_data = symptom_data,
                                        !.top_k = top_k])

\* line 184: self.nb_predictor.predict(symptom_data, top_k=5)
StartHybrid(t, p, symptom_data, user) ==
    BeginPredict(t, p, [IdleCall EXCEPT !.op = "hybrid", !.symptom_data = symptom_data,
                                        !.top_k = HybridTopK, !.user = user])

\* A variant of load_model that never restores: it trains whenever it is
\* called.
LoadBranchAlwaysTrain(f) ==
    IF f.state = "partial" THEN "raise" ELSE "train"

\* load_model (lines 158-168): with an artifact at the path, joblib.load and
\* the four assignments; without one, train().  An artifact that is still
\* being written cannot be unpickled: joblib.load raises.
LoadBranch(f) ==
    IF f.state = "absent" THEN "train"
    ELSE IF f.state = "partial" THEN "raise"
    ELSE "load"

\* A variant that restores model and label encoder but not the symptom
\* mapping (the encoder file of line 22 is never written).
load_model_without_encoder(f) == [f.data EXCEPT !.enc.map = << >>]

\* lines 161-165
load_model(f) == f.data

PredictLoad(t) ==
    /\ Quiet
    /\ call[t].pc = "p_load"
    /\ LET c == [call[t] EXCEPT !.sawFile = file.state]
           b == LoadBranch(file)
       IN  CASE b = "train" ->
                   BeginTraining(t, c.p, c)
             [] b = "raise" ->
                   /\ call' = [call EXCEPT ![t] = [c EXCEPT !.pc = "done",
                                                            !.err = "CorruptArtifact"]]
                   /\ UNCHANGED <<pred, nextGen, genEnc>>
             [] OTHER ->
                   /\ pred' = [pred EXCEPT ![c.p] = load_model(file)]
                   /\ call' = [call EXCEPT ![t] = [c EXCEPT !.pc = "p_compute",
                                                            !.didLoad = TRUE]]
                   /\ UNCHANGED <<nextGen, genEnc>>
    /\ UNCHANGED <<dbVars, opCounts, file, trainReturned, last, config, authVars>>

\* lines 115-145, and for the hybrid call lines 187-192.
PredictOutcome(c, ps, stable) ==
    LET r == NBCompute(ps, c.symptom_data, c.top_k, stable, diseases)
        rule == IF c.op = "hybrid" /\ r.err = "none"
                THEN rule_based_predict(c.symptom_data, c.user)
                ELSE << >>
    IN  [c EXCEPT !.pc = "done", !.err = r.err, !.used = ps, !.known = diseases,
                  !.fv = r.fv, !.probs = r.probs, !.top = r.top, !.labels = r.labels,
                  !.ml = r.ml, !.rule = rule,
                  !.result = IF r.err # "none" THEN << >>
                             ELSE IF c.op = "hybrid"
                                  THEN Prefix(combine_predictions(r.ml, rule), HybridCut)
                                  ELSE r.ml]

PredictCompute(t) ==
    /\ Quiet
    /\ call[t].pc = "p_compute"
    /\ call' = [call EXCEPT ![t] = PredictOutcome(call[t], pred[call[t].p], stableArgsort)]
    /\ UNCHANGED <<dbVars, opCounts, file, pred, nextGen, genEnc, trainReturned,
                   last, config, authVars>>

\* The call returns (or raises) to its caller; the instance a request built
\* goes with the request.
Return(t) ==
    /\ call[t].pc = "done"
    /\ call' = [call EXCEPT ![t] = IdleCall]
    /\ pred' = [pred EXCEPT ![RequestInstance(t)] = FreshPredictor]
    /\ last' = IF call[t].op = "hybrid" /\ call[t].err = "none"
               THEN [valid |-> TRUE, symptom_data |-> call[t].symptom_data,
                     user |-> call[t].user,
                     lazy |-> call[t].didLoad \/ call[t].didTrain,
                     gens |-> Gens(call[t].used),
                     result |-> call[t].result]
               ELSE NoLast
    /\ UNCHANGED <<dbVars, opCounts, file, nextGen, genEnc, trainReturned, config, authVars>>

\* The process restarts its shared instance: NaiveBayesPredictor().
Construct ==
    /\ Quiet
    /\ pred[SharedInstance] # FreshPredictor
    /\ \A t \in Threads : Busy(t) => call[t].p # SharedInstance
    /\ pred' = [pred EXCEPT ![SharedInstance] = FreshPredictor]
    /\ UNCHANGED <<dbVars, opCounts, file, call, nextGen, genEnc, trainReturned,
                   last, config, authVars>>

(***************************************************************************)
(* Curation of the knowledge base (admin site, import and seed commands).  *)
(***************************************************************************)
ImportWeights == {2}

ImportDiseases == {1, 2}

NoWeights == [d \in DisIds |-> [s \in SymIds |-> 0]]

MayCurate == Quiet /\ kbOps < MaxKbOps

\* A change of the knowledge base ends the "nothing changed since the previous
\* call" bookkeeping, also for a call that is running.
Curated ==
    /\ kbOps' = kbOps + 1
    /\ UNCHANGED requests
    /\ last' = NoLast
    /\ call' = [t \in Threads |-> [call[t] EXCEPT !.prev = NoLast]]
    /\ UNCHANGED <<file, pred, nextGen, genEnc, trainReturned, config, authVars>>

\* DiseaseSymptom.symptom and SubmissionSymptom.symptom: on_delete=CASCADE
DeleteSymptom(s) ==
    /\ MayCurate
    /\ s \in symptoms
    /\ symptoms' = symptoms \ {s}
    /\ dsw' = [d \in DisIds |-> [dsw[d] EXCEPT ![s] = 0]]
    /\ submissions' = [i \in 1..Len(submissions) |->
                          [submissions[i] EXCEPT !.syms[s] = 0]]
    /\ Curated
    /\ UNCHANGED <<diseases, dpreds>>

\* DiseaseSymptom.disease and DiseasePrediction.disease: on_delete=CASCADE;
\* UserSubmission.primary_prediction: on_delete=SET_NULL
DeleteDisease(d) ==
    /\ MayCurate
    /\ d \in diseases
    /\ diseases' = diseases \ {d}
    /\ dsw' = [dsw EXCEPT ![d] = [s \in SymIds |-> 0]]
    /\ submissions' = [i \in 1..Len(submissions) |->
                          IF submissions[i].primary = d
                          THEN [submissions[i] EXCEPT !.primary = NULL]
                          ELSE submissions[i]]
    /\ dpreds' = SelectSeq(dpreds, LAMBDA r : r.disease # d)
    /\ Curated
    /\ UNCHANGED symptoms

\* import_disease_data, one symptom column of one dataset row (data_loader.py
\* lines 55-83): get_or_create the disease, the symptom and the relation, the
\* last with the weight the severity file gives (validators: 1..10).
ImportRow(d, s, w) ==
    /\ MayCurate
    /\ dsw[d][s] = 0
    /\ diseases' = diseases \cup {d}
    /\ symptoms' = symptoms \cup {s}
    /\ dsw' = [dsw EXCEPT ![d][s] = w]
    /\ Curated
    /\ UNCHANGED <<submissions, dpreds>>

\* seed_data, lines 13-15: DiseaseSymptom, Disease and Symptom rows are all
\* deleted (with the cascades above) before the seed rows are created.
ClearData ==
    /\ MayCurate
    /\ symptoms # {} \/ diseases # {}
    /\ symptoms' = {}
    /\ diseases' = {}
    /\ dsw' = NoWeights
    /\ submissions' = [i \in 1..Len(submissions) |->
                          [submissions[i] EXCEPT !.primary = NULL,
                                                 !.syms = [s \in SymIds |-> 0]]]
    /\ dpreds' = << >>
    /\ Curated

(***************************************************************************)
(* The request path: UserSubmissionCreateSerializer.validate_symptoms      *)
(* (serializers.py), PredictionViewSet.calculate_severity and .predict     *)
(* (views.py), HybridPredictor.predict after the classifier returned.      *)
(***************************************************************************)
\* SubmissionSymptomInputSerializer.severity = IntegerField(min_value=1,
\* max_value=10, required=False, allow_null=True); an omitted or null
\* severity is NULL here.
MinSeverity == 1
MaxSeverity == 10

FieldsValid(value) ==
    \A i \in 1..Len(value) :
        value[i].severity = NULL \/ value[i].severity \in MinSeverity..MaxSeverity

\* serializers.py lines 96-98: DiseaseSymptom.objects.filter(symptom=...)
\* .order_by('-weight').first(); ds.weight if ds else 5
FallbackSeverity == 5

AutoSeverity(s) ==
    LET W == {dsw[d][s] : d \in DisIds} \ {0}
    IN  IF W = {} THEN FallbackSeverity
        ELSE CHOOSE w \in W : \A x \in W : x <= w

\* validate_symptoms, lines 80-101
validate_symptoms(value) ==
    LET existing_ids == {s \in symptoms : \E i \in 1..Len(value) : value[i].id = s}
    IN  IF value = << >> THEN [ok |-> FALSE, value |-> << >>]
        ELSE IF Cardinality(existing_ids) # Len(value) THEN [ok |-> FALSE, value |-> << >>]
        ELSE [ok |-> TRUE,
              value |-> [i \in 1..Len(value) |->
                            [id |-> value[i].id,
                             severity |-> IF value[i].severity = NULL
                                          THEN AutoSeverity(value[i].id)
                                          ELSE value[i].severity]]]

\* calculate_severity, views.py lines 46-63.  The score is returned rounded,
\* in hundredths; the category is chosen from the score before rounding,
\* (total / n / 10) * 100 against 30 and 70.
calculate_severity(symptom_details) ==
    IF symptom_details = << >> THEN [score |-> 0, category |-> "NORMAL"]
    ELSE LET n == Len(symptom_details)
             total_severity == SumSeq([i \in 1..n |-> symptom_details[i].severity])
         IN  [score |-> RoundDiv(1000 * total_severity, n),
              category |-> IF 10 * total_severity <= 30 * n THEN "NORMAL"
                           ELSE IF 10 * total_severity <= 70 * n THEN "MODERATE"
                           ELSE "RISKY"]

\* HybridPredictor.predict lines 187-192, ml_predictions being what line 184
\* returned.
HybridOutcome(c, ml_predictions) ==
    LET rule == rule_based_predict(c.symptom_data, c.user)
        combined == combine_predictions(ml_predictions, rule)
    IN  [c EXCEPT !.ml = ml_predictions, !.rule = rule, !.combined = combined,
                  !.result = Prefix(combined, HybridCut)]

\* HybridPredictor.predict called directly, with or without a user.
HybridScore(t, symptom_data, user, ml_predictions) ==
    /\ MayStart(t, RequestInstance(t))
    /\ call' = [call EXCEPT ![t] =
                  HybridOutcome([IdleCall EXCEPT !.op = "score", !.pc = "done",
                                                 !.p = RequestInstance(t),
                                                 !.symptom_data = symptom_data,
                                                 !.user = user,
                                                 !.before = [submissions |-> submissions,
                                                             dpreds |-> dpreds]],
                                ml_predictions)]
    /\ UNCHANGED <<dbVars, opCounts, file, pred, nextGen, genEnc, trainReturned, last,
                   config, authVars>>

\* views.py lines 102-147: one UserSubmission with its SubmissionSymptom rows
\* and one DiseasePrediction per returned entry, ranks from 1.
NewSubmission(user, symptom_data, predictions, severity) ==
    [user |-> user, primary |-> predictions[1].disease,
     syms |-> [s \in SymIds |-> IF s \in InputIds(symptom_data)
                                THEN SeverityOf(symptom_data, s) ELSE 0],
     severity_score |-> severity.score, severity_category |-> severity.category]

\* A variant with enumerate(predictions) left at its default start of 0.
NewPredictionsFromZero(sub, predictions) ==
    [i \in 1..Len(predictions) |->
        [sub |-> sub, disease |-> predictions[i].disease,
         conf |-> predictions[i].confidence, rank |-> i - 1]]

NewPredictions(sub, predictions) ==
    [i \in 1..Len(predictions) |->
        [sub |-> sub, disease |-> predictions[i].disease,
         conf |-> predictions[i].confidence, rank |-> i]]

\* A variant that creates the submission before it looks at the list of
\* predictions: an empty list still answers 404, with a record left behind.
PredictRequestStoringFirst(t, raw, user, ml_predictions) ==
    /\ MayStart(t, RequestInstance(t))
    /\ requests < MaxRequests
    /\ LET v == validate_symptoms(raw)
           valid == FieldsValid(raw) /\ v.ok
           c0 == [IdleCall EXCEPT !.op = "request", !.pc = "done",
                                  !.p = RequestInstance(t), !.raw = raw, !.user = user,
                                  !.before = [submissions |-> submissions,
                                              dpreds |-> dpreds]]
           c1 == HybridOutcome([c0 EXCEPT !.symptom_data = v.value], ml_predictions)
           severity == calculate_severity(v.value)
           listed == IF c1.result = << >> THEN <<[disease |-> NULL, confidence |-> 0]>>
                     ELSE c1.result
       IN  IF ~valid
           THEN /\ call' = [call EXCEPT ![t] = [c0 EXCEPT !.status = 400]]
                /\ UNCHANGED <<submissions, dpreds, requests>>
           ELSE /\ call' = [call EXCEPT ![t] =
                              [c1 EXCEPT !.status = IF c1.result = << >> THEN 404 ELSE 201,
                                         !.severity_score = severity.score,
                                         !.severity_category = severity.category]]
                /\ submissions' = Append(submissions,
                                         NewSubmission(user, v.value, listed, severity))
                /\ dpreds' = dpreds \o NewPredictions(Len(submissions) + 1, c1.result)
                /\ requests' = requests + 1
    /\ UNCHANGED <<symptoms, diseases, dsw, kbOps, file, pred, nextGen, genEnc,
                   trainReturned, last, config, authVars>>

\* PredictionViewSet.predict, lines 80-175, for an authenticated user (the
\* view's permission class): 400 on invalid data, 404 on an empty list, else
\* the records and 201.
PredictRequest(t, raw, user, ml_predictions) ==
    /\ MayStart(t, RequestInstance(t))
    /\ requests < MaxRequests
    /\ LET v == validate_symptoms(raw)
           valid == FieldsValid(raw) /\ v.ok
           c0 == [IdleCall EXCEPT !.op = "request", !.pc = "done",
                                  !.p = RequestInstance(t), !.raw = raw, !.user = user,
                                  !.before = [submissions |-> submissions,
                                              dpreds |-> dpreds]]
           c1 == HybridOutcome([c0 EXCEPT !.symptom_data = v.value], ml_predictions)
           severity == calculate_severity(v.value)
       IN  IF ~valid
           THEN /\ call' = [call EXCEPT ![t] = [c0 EXCEPT !.status = 400]]
                /\ UNCHANGED <<submissions, dpreds, requests>>
           ELSE IF c1.result = << >>
           THEN /\ call' = [call EXCEPT ![t] = [c1 EXCEPT !.status = 404]]
                /\ UNCHANGED <<submissions, dpreds, requests>>
           ELSE /\ call' = [call EXCEPT ![t] =
                              [c1 EXCEPT !.status = 201,
                                         !.severity_score = severity.score,
                                         !.severity_category = severity.category]]
                /\ submissions' = Append(submissions,
                                         NewSubmission(user, v.value, c1.result, severity))
                /\ dpreds' = dpreds \o NewPredictions(Len(submissions) + 1, c1.result)
                /\ requests' = requests + 1
    /\ UNCHANGED <<symptoms, diseases, dsw, kbOps, file, pred, nextGen, genEnc,
                   trainReturned, last, config, authVars>>

\* calculate_severity called on a list of observations.
SeverityCall(t, symptom_details) ==
    /\ MayStart(t, RequestInstance(t))
    /\ LET severity == calculate_severity(symptom_details)
       IN  call' = [call EXCEPT ![t] =
                      [IdleCall EXCEPT !.op = "severity", !.pc = "done",
                                       !.p = RequestInstance(t),
                                       !.symptom_data = symptom_details,
                                       !.severity_score = severity.score,
                                       !.severity_category = severity.category]]
    /\ UNCHANGED <<dbVars, opCounts, file, pred, nextGen, genEnc, trainReturned, last,
                   config, authVars>>

(***************************************************************************)
(* Initial states: a database as the seed/import commands and earlier      *)
(* requests left it, no artifact, freshly constructed instances.           *)
(***************************************************************************)
\* two diseases with the same single symptom and weight
TwinDatabase ==
    [symptoms |-> {1}, diseases |-> {1, 2},
     dsw |-> [NoWeights EXCEPT ![1][1] = 2, ![2][1] = 2],
     submissions |-> << >>, dpreds |-> << >>]

\* two diseases over two symptoms, and one stored submission of u1
HistoryDatabase ==
    [symptoms |-> {1, 2}, diseases |-> {1, 2},
     dsw |-> [NoWeights EXCEPT ![1][1] = 3, ![1][2] = 1, ![2][2] = 2],
     submissions |-> <<[user |-> "u1", primary |-> 1,
                        syms |-> [s \in SymIds |-> IF s = 1 THEN 2 ELSE 0],
                        severity_score |-> 2000, severity_category |-> "NORMAL"]>>,
     dpreds |-> <<[sub |-> 1, disease |-> 1, conf |-> 7500, rank |-> 1]>>]

\* ---------------------------------------------------------------------------
\* The users app: users/views.py behind users/authentication.py.
\* ---------------------------------------------------------------------------

\* Names and addresses a request can carry; two of each differ only in case.
Usernames == {"bob", "Bob", "amy"}

Emails == {"b@x.io", "B@x.io", "a@x.io", "c@x.io"}

\* str.lower() on those.
lower(s) ==
    CASE s = "Bob" -> "bob"
      [] s = "B@x.io" -> "b@x.io"
      [] OTHER -> s

\* The comparison of the __iexact lookups.
iexact(a, b) == lower(a) = lower(b)

\* A signed JWT: its token_type claim, the user it names and its serial.
Token(type, user, jti) == [type |-> type, user |-> user, jti |-> jti]

\* A cookie the request does not carry, and one holding no JWT of this server.
NoCookie == Token("none", "", 0)

Garbage == Token("garbage", "", 0)

\* The mint events so far, and the cap on them.
Mints == Cardinality({tok.jti : tok \in minted})

MaxTokens == 2

\* AccessToken(raw) does not raise TokenError.
ValidAccess(raw) == raw \in minted /\ raw.type = "access" /\ raw \notin expired

\* RefreshToken(raw) does not raise TokenError; with the token_blacklist app
\* installed its verify() also rejects a blacklisted token.
ValidRefresh(raw) ==
    raw \in minted /\ raw.type = "refresh" /\ raw \notin expired /\ raw \notin blacklist

\* CookieJWTAuthentication.authenticate on a request without an Authorization
\* header: the user, "" for a request left anonymous, or "InvalidToken".
Authenticate(cookies) ==
    IF cookies.access = NoCookie THEN ""
    ELSE IF ValidAccess(cookies.access) THEN cookies.access.user
    ELSE "InvalidToken"

NoCookies == [access |-> NoCookie, refresh |-> NoCookie]

IdleRequest ==
    [op |-> "none", pc |-> "idle", cookies |-> NoCookies, username |-> "", email |-> "",
     status |-> 0, user |-> "", refreshed |-> FALSE,
     set_access |-> NoCookie, set_refresh |-> NoCookie, deleted |-> {}]

\* Thread t can take a request: the single thread of a process that serves
\* calls one at a time is thread 1.
Free(t) ==
    /\ http[t].pc # "r_create"
    /\ concurrent \/ t = 1

Answer(t, op, cookies, status) ==
    [IdleRequest EXCEPT !.op = op, !.pc = "done", !.cookies = cookies, !.status = status]

coreVars == <<dbVars, opCounts, file, pred, call, nextGen, genEnc, trainReturned, last, config>>

\* RegisterView.post up to its two exists() queries, for a request that
\* carries no credentials.  wellFormed: the fields pass the checks of
\* lines 31 to 56.
RegisterCheck(t, username, email, wellFormed) ==
    /\ Free(t)
    /\ LET request == [Answer(t, "register", NoCookies, 400)
                          EXCEPT !.username = username, !.email = email]
       IN  http' = [http EXCEPT ![t] =
                IF ~wellFormed THEN request
                ELSE IF \E i \in 1..Len(users) : iexact(users[i].username, username)
                THEN request
                ELSE IF \E i \in 1..Len(users) : iexact(users[i].email, email)
                THEN request
                ELSE [request EXCEPT !.pc = "r_create", !.status = 0]]
    /\ UNCHANGED <<coreVars, users, minted, expired, blacklist, loggedOut>>

\* create_user(username, email.lower(), password): the INSERT fails on the
\* unique indexes of username and email, which compare exactly.
RegisterCreate(t) ==
    /\ http[t].pc = "r_create"
    /\ LET row == [username |-> http[t].username, email |-> lower(http[t].email)]
           IntegrityError == \E i \in 1..Len(users) :
                                \/ users[i].username = row.username
                                \/ users[i].email = row.email
       IN  IF IntegrityError
           THEN /\ http' = [http EXCEPT ![t].pc = "done", ![t].status = 400]
                /\ users' = users
           ELSE /\ http' = [http EXCEPT ![t].pc = "done", ![t].status = 201,
                                        ![t].user = row.username]
                /\ users' = Append(users, row)
    /\ UNCHANGED <<coreVars, minted, expired, blacklist, loggedOut>>

\* The cookies a client can send: none, junk, or a token this server signed.
Cookies(type) == {NoCookie, Garbage} \cup {tok \in minted : tok.type = type}

CookieJars == [access : Cookies("access"), refresh : Cookies("refresh")]

\* LoginView.post.  username is a name, an address or blank; passwordOk:
\* the password is the one of the user the name resolves to.
Login(t, cookies, username, passwordOk) ==
    /\ Free(t)
    /\ LET byEmail == {i \in 1..Len(users) : iexact(users[i].email, username)}
           name == IF username \in Emails /\ byEmail # {}
                   THEN users[CHOOSE i \in byEmail : TRUE].username
                   ELSE username
           known == \E i \in 1..Len(users) : users[i].username = name
           jti == Mints + 1
       IN  IF Authenticate(cookies) = "InvalidToken"
           THEN /\ http' = [http EXCEPT ![t] = Answer(t, "login", cookies, 401)]
                /\ minted' = minted
           ELSE IF username = ""
           THEN /\ http' = [http EXCEPT ![t] = Answer(t, "login", cookies, 400)]
                /\ minted' = minted
           ELSE IF (username \in Emails /\ byEmail = {}) \/ ~known \/ ~passwordOk
           THEN /\ http' = [http EXCEPT ![t] = Answer(t, "login", cookies, 401)]
                /\ minted' = minted
           ELSE /\ http' = [http EXCEPT ![t] =
                       [Answer(t, "login", cookies, 200)
                           EXCEPT !.user = name,
                                  !.set_refresh = Token("refresh", name, jti),
                                  !.set_access = Token("access", name, jti)]]
                /\ minted' = minted \cup {Token("refresh", name, jti),
                                          Token("access", name, jti)}
    /\ minted' # minted => Mints < MaxTokens
    /\ UNCHANGED <<coreVars, users, expired, blacklist, loggedOut>>

\* LogoutView.post with the call to blacklist() left out.
LogoutWithoutBlacklist(t, cookies) ==
    /\ Free(t)
    /\ IF Authenticate(cookies) \in {"", "InvalidToken"}
       THEN /\ http' = [http EXCEPT ![t] = Answer(t, "logout", cookies, 401)]
            /\ UNCHANGED <<blacklist, loggedOut>>
       ELSE /\ http' = [http EXCEPT ![t] =
                   [Answer(t, "logout", cookies, 200)
                       EXCEPT !.deleted = {"access_token", "refresh_token"}]]
            /\ blacklist' = blacklist
            /\ loggedOut' = IF cookies.refresh \in minted
                            THEN loggedOut \cup {cookies.refresh}
                            ELSE loggedOut
    /\ UNCHANGED <<coreVars, users, minted, expired>>

\* LogoutView.post, behind IsAuthenticated.
Logout(t, cookies) ==
    /\ Free(t)
    /\ IF Authenticate(cookies) \in {"", "InvalidToken"}
       THEN /\ http' = [http EXCEPT ![t] = Answer(t, "logout", cookies, 401)]
            /\ UNCHANGED <<blacklist, loggedOut>>
       ELSE /\ http' = [http EXCEPT ![t] =
                   [Answer(t, "logout", cookies, 200)
                       EXCEPT !.deleted = {"access_token", "refresh_token"}]]
            /\ blacklist' = IF ValidRefresh(cookies.refresh)
                            THEN blacklist \cup {cookies.refresh}
                            ELSE blacklist
            /\ loggedOut' = IF cookies.refresh \in minted
                            THEN loggedOut \cup {cookies.refresh}
                            ELSE loggedOut
    /\ UNCHANGED <<coreVars, users, minted, expired>>

\* The body of MeView.get.
MeBody(t, cookies) ==
    IF cookies.access = NoCookie
    THEN Answer(t, "me", cookies, 401)
    ELSE IF ValidAccess(cookies.access)
    THEN [Answer(t, "me", cookies, 200) EXCEPT !.user = cookies.access.user]
    ELSE IF cookies.refresh = NoCookie
    THEN Answer(t, "me", cookies, 401)
    ELSE IF ValidRefresh(cookies.refresh)
    THEN [Answer(t, "me", cookies, 200)
             EXCEPT !.user = cookies.refresh.user, !.refreshed = TRUE,
                    !.set_access = Token("access", cookies.refresh.user, Mints + 1)]
    ELSE Answer(t, "me", cookies, 401)

\* A GET of the 'me' endpoint: the view's authenticators run before get().
Me(t, cookies) ==
    /\ Free(t)
    /\ http' = [http EXCEPT ![t] =
           IF Authenticate(cookies) = "InvalidToken"
           THEN Answer(t, "me", cookies, 401)
           ELSE MeBody(t, cookies)]
    /\ minted' = IF http'[t].set_access # NoCookie
                 THEN minted \cup {http'[t].set_access}
                 ELSE minted
    /\ minted' # minted => Mints < MaxTokens
    /\ UNCHANGED <<coreVars, users, expired, blacklist, loggedOut>>

\* RefreshTokenView.post.
Refresh(t, cookies) ==
    /\ Free(t)
    /\ http' = [http EXCEPT ![t] =
           IF Authenticate(cookies) = "InvalidToken"
           THEN Answer(t, "refresh", cookies, 401)
           ELSE IF cookies.refresh = NoCookie
           THEN Answer(t, "refresh", cookies, 401)
           ELSE IF ValidRefresh(cookies.refresh)
           THEN [Answer(t, "refresh", cookies, 200)
                    EXCEPT !.set_access =
                               Token("access", cookies.refresh.user, Mints + 1)]
           ELSE Answer(t, "refresh", cookies, 401)]
    /\ minted' = IF http'[t].set_access # NoCookie
                 THEN minted \cup {http'[t].set_access}
                 ELSE minted
    /\ minted' # minted => Mints < MaxTokens
    /\ UNCHANGED <<coreVars, users, expired, blacklist, loggedOut>>

\* Time passes the lifetime of a token: 60 minutes for an access token, a day
\* for a refresh token.  Tokens of one type run out in the order they were
\* signed, and a refresh token outlives the access tokens signed no later
\* than it.
Expire(tok) ==
    /\ tok \in minted \ expired
    /\ \A a \in minted : (a.type = tok.type /\ a.jti < tok.jti) => a \in expired
    /\ tok.type = "refresh" =>
          \A a \in minted : (a.type = "access" /\ a.jti <= tok.jti) => a \in expired
    /\ expired' = expired \cup {tok}
    /\ UNCHANGED <<coreVars, users, minted, blacklist, loggedOut, http>>

InitFrom(databases, conc) ==
    /\ \E db \in databases :
          /\ symptoms = db.symptoms
          /\ diseases = db.diseases
          /\ dsw = db.dsw
          /\ submissions = db.submissions
          /\ dpreds = db.dpreds
    /\ kbOps = 0
    /\ requests = 0
    /\ file = NoFile
    /\ pred = [p \in Predictors |-> FreshPredictor]
    /\ call = [t \in Threads |-> IdleCall]
    /\ nextGen = 0
    /\ genEnc = [g \in 1..(MaxTrains + Cardinality(Threads)) |-> << >>]
    /\ trainReturned = 0
    /\ last = NoLast
    /\ concurrent = conc
    /\ stableArgsort \in BOOLEAN
    /\ minted = {}
    /\ expired = {}
    /\ blacklist = {}
    /\ loggedOut = {}
    /\ http = [t \in Threads |-> IdleRequest]

\* Calls one at a time.
SymptomInputs ==
    { <<[id |-> 2, severity |-> 2]>>,
      <<[id |-> 1, severity |-> 1], [id |-> 2, severity |-> 2]>> }

TopKs == {1}

Init == InitFrom({TwinDatabase, HistoryDatabase}, FALSE) /\ users = << >>

Next ==
    \/ \E t \in Threads, p \in Predictors : StartTrain(t, p)
    \/ \E t \in Threads : TrainCheck(t)
    \/ \E t \in Threads : TrainFit(t)
    \/ \E t \in Threads : SaveOpen(t)
    \/ \E t \in Threads : SaveWrite(t)
    \/ \E t \in Threads, p \in Predictors, sd \in SymptomInputs, k \in TopKs :
          StartPredict(t, p, sd, k)
    \/ \E t \in Threads, p \in Predictors, sd \in SymptomInputs, u \in Users \cup {NoUser} :
          StartHybrid(t, p, sd, u)
    \/ \E t \in Threads : PredictLoad(t)
    \/ \E t \in Threads : PredictCompute(t)
    \/ \E t \in Threads : Return(t)
    \/ Construct
    \/ \E s \in SymIds : DeleteSymptom(s)
    \/ \E d \in DisIds : DeleteDisease(d)
    \/ \E d \in ImportDiseases, s \in SymIds, w \in ImportWeights : ImportRow(d, s, w)
    \/ ClearData

Spec == Init /\ [][Next]_vars

\* Calls on two threads.
InitConc == InitFrom({TwinDatabase}, TRUE) /\ users = << >>

ConcInputs == { <<[id |-> 1, severity |-> 2]>> }

NextConc ==
    \/ \E t \in Threads, p \in Predictors : StartTrain(t, p)
    \/ \E t \in Threads : TrainCheck(t)
    \/ \E t \in Threads : TrainFit(t)
    \/ \E t \in Threads : SaveOpen(t)
    \/ \E t \in Threads : SaveWrite(t)
    \/ \E t \in Threads, p \in Predictors, sd \in ConcInputs, k \in TopKs :
          StartPredict(t, p, sd, k)
    \/ \E t \in Threads : PredictLoad(t)
    \/ \E t \in Threads : PredictCompute(t)
    \/ \E t \in Threads : Return(t)
    \/ Construct
    \/ \E s \in SymIds : DeleteSymptom(s)

SpecConc == InitConc /\ [][NextConc]_vars

(***************************************************************************)
(* Requests, one at a time, against knowledge bases and histories of more  *)
(* shapes; the list the classifier returned is an input.                   *)
(***************************************************************************)
OtherUser == "u2"

\* disease 1 ("Flu") with weights {1: 8, 2: 6}, disease 2 with {2: 10}
FluDatabase ==
    [symptoms |-> {1, 2}, diseases |-> {1, 2},
     dsw |-> [NoWeights EXCEPT ![1][1] = 8, ![1][2] = 6, ![2][2] = 10],
     submissions |-> << >>, dpreds |-> << >>]

\* one disease; symptom 2 is referenced by no disease
BareDatabase ==
    [symptoms |-> {1, 2}, diseases |-> {1},
     dsw |-> [NoWeights EXCEPT ![1][1] = 4],
     submissions |-> << >>, dpreds |-> << >>]

\* six diseases that all hold symptom 1
SixDatabase ==
    [symptoms |-> {1, 2}, diseases |-> 1..6,
     dsw |-> [NoWeights EXCEPT ![1][1] = 5, ![2][1] = 5, ![3][1] = 5, ![3][2] = 5,
                               ![4][1] = 10, ![5][1] = 1, ![5][2] = 9, ![6][2] = 2],
     submissions |-> << >>, dpreds |-> << >>]

\* rows: one stored submission per row, with one stored prediction
WithHistory(db, rows) ==
    [db EXCEPT
        !.submissions =
            [i \in 1..Len(rows) |->
                [user |-> rows[i].user, primary |-> rows[i].disease,
                 syms |-> [s \in SymIds |-> IF s = 1 THEN 5 ELSE 0],
                 severity_score |-> 5000, severity_category |-> "MODERATE"]],
        !.dpreds =
            [i \in 1..Len(rows) |->
                [sub |-> i, disease |-> rows[i].disease, conf |-> rows[i].conf,
                 rank |-> 1]]]

MixedHistoryDatabase ==
    WithHistory(FluDatabase,
                <<[user |-> "u1", disease |-> 1, conf |-> 8000],
                  [user |-> "u1", disease |-> 2, conf |-> 6999],
                  [user |-> OtherUser, disease |-> 2, conf |-> 9000],
                  [user |-> "u1", disease |-> 1, conf |-> 7000]>>)

LongHistoryDatabase ==
    WithHistory(FluDatabase, [i \in 1..6 |-> [user |-> "u1", disease |-> 1, conf |-> 9000]])

RequestDatabases ==
    {FluDatabase, BareDatabase, SixDatabase, MixedHistoryDatabase, LongHistoryDatabase}

\* What HybridPredictor.predict is called with.
ScoreInputs ==
    { << >>,
      <<[id |-> 1, severity |-> 10], [id |-> 2, severity |-> 10]>>,
      <<[id |-> 1, severity |-> 5]>>,
      <<[id |-> 2, severity |-> 3]>>,
      <<[id |-> 1, severity |-> 1], [id |-> 2, severity |-> 2]>> }

\* What a request carries: severities omitted (NULL), out of range, symptom
\* ids repeated or unknown.
RawInputs ==
    { << >>,
      <<[id |-> 1, severity |-> NULL]>>,
      <<[id |-> 2, severity |-> NULL]>>,
      <<[id |-> 2, severity |-> NULL], [id |-> 1, severity |-> 4]>>,
      <<[id |-> 1, severity |-> 11]>>,
      <<[id |-> 1, severity |-> 3], [id |-> 1, severity |-> 4]>>,
      <<[id |-> 3, severity |-> 2]>>,
      <<[id |-> 1, severity |-> 10], [id |-> 2, severity |-> 10]>> }

\* Lists the classifier may return for top_k = 5: existing diseases, no
\* disease twice.
ClassifierLists ==
    { << >>,
      <<[disease |-> 1, confidence |-> 5000]>>,
      <<[disease |-> 2, confidence |-> 9500], [disease |-> 1, confidence |-> 500]>>,
      <<[disease |-> 3, confidence |-> 10000]>>,
      [i \in 1..5 |-> [disease |-> <<2, 1, 3, 4, 5>>[i], confidence |-> 2000]] }

MlLists == {l \in ClassifierLists : Diseases(l) \subseteq diseases}

\* The lists the classifier returns to a request: none, or its top 5 of the
\* diseases there are.
RequestMlLists ==
    {l \in MlLists : Len(l) \in {0, Min2(HybridTopK, Cardinality(diseases))}}

\* Lists calculate_severity is called with; the long one has LongListLen
\* observations, one of severity 4 and the others of severity 3.
LongListLen == 2001

SeverityLists ==
    ScoreInputs
    \cup { [i \in 1..LongListLen |-> [id |-> i, severity |-> IF i = 1 THEN 4 ELSE 3]],
           <<[id |-> 1, severity |-> 7]>>,
           <<[id |-> 1, severity |-> 7], [id |-> 2, severity |-> 8]>> }

\* Weights a severity file may give: int(row.get('weight', 5)) is stored as
\* read (data_loader.py lines 31, 76-82; model validators do not run on
\* get_or_create).
FileWeights == {3, 12}

InitRequest == InitFrom(RequestDatabases, FALSE) /\ stableArgsort /\ users = << >>

\* The data files are imported before the first request is stored.
NextRequest ==
    \/ \E t \in Threads, sd \in ScoreInputs, u \in Users \cup {NoUser}, ml \in MlLists :
          HybridScore(t, sd, u, ml)
    \/ \E t \in Threads, raw \in RawInputs, u \in Users, ml \in RequestMlLists :
          PredictRequest(t, raw, u, ml)
    \/ \E t \in Threads, sd \in SeverityLists : SeverityCall(t, sd)
    \/ \E t \in Threads : Return(t)
    \/ \E d \in ImportDiseases, s \in SymIds, w \in FileWeights :
          requests = 0 /\ ImportRow(d, s, w)

SpecRequest == InitRequest /\ [][NextRequest]_vars

(***************************************************************************)
(* PredictionViewSet.format_recommendations, views.py lines 65-78.  A text *)
(* is a sequence of characters; "bullet" stands for U+2022.                *)
(***************************************************************************)
Chars == {"bullet", "-", "*", " ", "\n", "a"}

\* what str.strip() removes
Whitespace == {" ", "\n"}

MaxTextLen == 3

Texts == UNION {[1..n -> Chars] : n \in 0..MaxTextLen}

\* str.lstrip(chars) and str.rstrip(chars)
RECURSIVE lstrip(_, _)
lstrip(str, chars) ==
    IF str # << >> /\ Head(str) \in chars THEN lstrip(Tail(str), chars) ELSE str

RECURSIVE rstrip(_, _)
rstrip(str, chars) ==
    IF str # << >> /\ str[Len(str)] \in chars
    THEN rstrip(SubSeq(str, 1, Len(str) - 1), chars)
    ELSE str

strip(str) == rstrip(lstrip(str, Whitespace), Whitespace)

\* str.split('\n'): the pieces between the line breaks, empty ones included
RECURSIVE split(_)
split(str) ==
    IF \A i \in 1..Len(str) : str[i] # "\n" THEN <<str>>
    ELSE LET i == CHOOSE i \in 1..Len(str) :
                      str[i] = "\n" /\ \A j \in 1..(i - 1) : str[j] # "\n"
         IN  <<SubSeq(str, 1, i - 1)>> \o split(SubSeq(str, i + 1, Len(str)))

\* line 74: line.strip().lstrip('\u2022').lstrip('-').lstrip('*').strip()
Cleaned(line) ==
    strip(lstrip(lstrip(lstrip(strip(line), {"bullet"}), {"-"}), {"*"}))

format_recommendations(text_field) ==
    IF text_field = << >> THEN << >>
    ELSE LET lines == split(strip(text_field))
         IN  SelectSeq([i \in 1..Len(lines) |-> Cleaned(lines[i])],
                       LAMBDA cleaned : cleaned # << >>)

FormatCall(t, text_field) ==
    /\ MayStart(t, RequestInstance(t))
    /\ call' = [call EXCEPT ![t] =
                  [IdleCall EXCEPT !.op = "format", !.pc = "done",
                                   !.p = RequestInstance(t),
                                   !.text_field = text_field,
                                   !.recommendations =
                                       format_recommendations(text_field)]]
    /\ UNCHANGED <<dbVars, opCounts, file, pred, nextGen, genEnc, trainReturned, last,
                   config, authVars>>

InitFormat == InitFrom({BareDatabase}, FALSE) /\ users = << >>

NextFormat ==
    \/ \E t \in Threads, text_field \in Texts : FormatCall(t, text_field)
    \/ \E t \in Threads : Return(t)

SpecFormat == InitFormat /\ [][NextFormat]_vars

(***************************************************************************)
(* Training runs, one at a time, against a history longer than the cap of  *)
(* prepare_training_data; diseases are deleted between the runs.           *)
(***************************************************************************)
ArchiveLen == HistoryCap + 2

\* Two diseases and ArchiveLen stored submissions, oldest first: the oldest
\* was predicted as disease 2, the third lost its primary prediction when its
\* disease was deleted (SET_NULL), all others were predicted as disease 1.
ArchiveDatabase ==
    [symptoms |-> {1, 2}, diseases |-> {1, 2},
     dsw |-> [NoWeights EXCEPT ![1][1] = 4, ![2][2] = 3],
     submissions |->
        [i \in 1..ArchiveLen |->
            [user |-> "u1",
             primary |-> IF i = 1 THEN 2 ELSE IF i = 3 THEN NULL ELSE 1,
             syms |-> [s \in SymIds |-> IF i = 1 THEN (IF s = 2 THEN 7 ELSE 0)
                                         ELSE (IF s = 1 THEN 5 ELSE 0)],
             severity_score |-> 5000, severity_category |-> "MODERATE"]],
     dpreds |-> << >>]

\* Requests made between the training runs; the classifier's list is left
\* out of them (empty), the rule-based list decides.
ArchiveRawInputs ==
    { <<[id |-> 2, severity |-> 3]>>,
      <<[id |-> 1, severity |-> 4], [id |-> 2, severity |-> 6]>> }

InitTrain ==
    InitFrom({ArchiveDatabase, HistoryDatabase}, FALSE) /\ stableArgsort /\ users = << >>

Idle == \A t \in Threads : ~Busy(t)

NextTrain ==
    \/ \E t \in Threads, p \in Predictors : StartTrain(t, p)
    \/ \E t \in Threads : TrainCheck(t)
    \/ \E t \in Threads : TrainFit(t)
    \/ \E t \in Threads : SaveOpen(t)
    \/ \E t \in Threads : SaveWrite(t)
    \/ \E t \in Threads : Return(t)
    \/ \E d \in DisIds : Idle /\ DeleteDisease(d)
    \/ \E t \in Threads, raw \in ArchiveRawInputs, u \in Users :
          Idle /\ PredictRequest(t, raw, u, << >>)
    \/ \E t \in Threads, sd \in ArchiveRawInputs, u \in Users :
          Idle /\ HybridScore(t, sd, u, << >>)

SpecTrain == InitTrain /\ [][NextTrain]_vars

\* Registrations alone, served on two threads.
InitRegister == InitFrom({BareDatabase}, TRUE) /\ stableArgsort /\ users = << >>

NextRegister ==
    \/ \E t \in Threads, username \in Usernames, email \in Emails, wellFormed \in BOOLEAN :
          RegisterCheck(t, username, email, wellFormed)
    \/ \E t \in Threads : RegisterCreate(t)

SpecRegister == InitRegister /\ [][NextRegister]_vars

\* Blank, the user's name, the name in another case, the user's address in
\* another case, and an address nobody registered.
LoginNames == {"", "bob", "Bob", "B@x.io", "c@x.io"}

\* Sessions of a registered user, one request at a time.
InitSession ==
    /\ InitFrom({BareDatabase}, FALSE)
    /\ stableArgsort
    /\ users = <<[username |-> "bob", email |-> "b@x.io"]>>

\* A client logging in sends at most the access cookie of an earlier session.
NextSession ==
    \/ \E t \in Threads, access \in Cookies("access"), username \in LoginNames,
          passwordOk \in BOOLEAN :
          Login(t, [access |-> access, refresh |-> NoCookie], username, passwordOk)
    \/ \E t \in Threads, cookies \in CookieJars : Logout(t, cookies)
    \/ \E t \in Threads, cookies \in CookieJars : Me(t, cookies)
    \/ \E t \in Threads, cookies \in CookieJars : Refresh(t, cookies)
    \/ \E tok \in minted : Expire(tok)

SpecSession == InitSession /\ [][NextSession]_vars

(***************************************************************************)
(* Properties.                                                             *)
(***************************************************************************)
Returned(t) == call[t].pc = "done"

IsPredict(t) == call[t].op \in {"predict", "hybrid"}

Training(t) == call[t].pc \in {"t_check", "t_fit", "t_open", "t_write"}

\* Thread t's finished predict read a state that the train() thread u is
\* still running had written in part.
TornBy(t, u) ==
    /\ u # t
    /\ Training(u)
    /\ \E i \in 1..3 : Gens(call[t].used)[i] = call[u].gen
    /\ \E i \in 1..3 : Gens(call[t].used)[i] # call[u].gen

\* C1: a Predict that runs while a Train is rewriting the state uses a
\* complete state, the one before that Train or the one after it: it neither
\* computes from fields of which only some were written by the running Train,
\* nor finds the persisted artifact half written.
C1_PredictSeesCompleteState ==
    \A t \in Threads :
        Returned(t) /\ IsPredict(t) =>
            /\ call[t].err # "CorruptArtifact"
            /\ \A u \in Threads : ~TornBy(t, u)

\* C2: a Predict started after an explicit Train has returned does not return
\* a result computed from a model older than that Train's.
C2_NoStaleResultAfterRetrain ==
    \A t \in Threads :
        Returned(t) /\ IsPredict(t) /\ call[t].err = "none" =>
            call[t].used.model.gen >= call[t].startAfter

\* C3: a Predict on an instance that is not trained restores the artifact and
\* does not train when an artifact exists, and trains when none exists; a
\* Predict on a trained instance neither restores nor trains.
C3_LazyLoadOrTrain ==
    \A t \in Threads :
        Returned(t) /\ IsPredict(t) =>
            /\ call[t].wasTrained =>
                  ~call[t].didLoad /\ ~call[t].didTrain /\ call[t].sawFile = "none"
            /\ ~call[t].wasTrained /\ call[t].startFile.state = "complete" =>
                  /\ call[t].didLoad /\ ~call[t].didTrain
                  /\ call[t].used = call[t].startFile.data
            /\ ~call[t].wasTrained /\ call[t].startFile.state = "absent" =>
                  call[t].didTrain /\ ~call[t].didLoad

C3_Witness ==
    \E t \in Threads :
        /\ Returned(t) /\ IsPredict(t) /\ call[t].err = "none"
        /\ ~call[t].wasTrained /\ call[t].startFile.state = "complete"
        /\ call[t].didLoad /\ call[t].result # << >>

\* C4: whenever Predict builds a feature vector, the mapping it uses is the
\* mapping the model held by the instance was trained with, and the vector is
\* as long as the model's feature count.
C4_EncoderMatchesModel ==
    \A t \in Threads :
        Returned(t) /\ IsPredict(t) /\ call[t].used.model.gen # 0 =>
            /\ call[t].used.enc.map = genEnc[call[t].used.model.gen]
            /\ Len(call[t].fv) = call[t].used.model.n

\* C5: a Train whose training set is empty fails with the no-training-data
\* error and leaves the persisted artifact exactly as it was.
C5_EmptyTrainFailsAndKeepsArtifact ==
    \A t \in Threads :
        Returned(t) /\ call[t].op = "train" /\ call[t].samples = 0 =>
            /\ call[t].err = "NoTrainingData"
            /\ ~call[t].wrote
            /\ file = call[t].startFile

C5_Witness ==
    \E t \in Threads :
        /\ Returned(t) /\ call[t].op = "train" /\ call[t].samples = 0
        /\ call[t].err = "NoTrainingData"
        /\ file.state = "complete"

\* C6: when the symptoms known as Predict starts are not those the model was
\* trained against, Predict retrains or fails; it does not return a result
\* computed with that model.
C6_RetrainOrFailOnSymptomChange ==
    \A t \in Threads :
        Returned(t) /\ IsPredict(t) /\ call[t].err = "none" /\ ~call[t].didTrain =>
            Range(genEnc[call[t].used.model.gen]) = call[t].startSymptoms

Before(probs, i, j) ==
    probs[i] > probs[j] \/ (probs[i] = probs[j] /\ i < j)

C8_TopKLowerIndexWinsTies ==
    \A t \in Threads :
        Returned(t) /\ IsPredict(t) /\ call[t].err = "none" =>
            LET top == call[t].top
                probs == call[t].probs
            IN  /\ Len(top) = Min2(call[t].top_k, Len(probs))
                /\ \A a, b \in 1..Len(top) : a < b => Before(probs, top[a], top[b])
                /\ \A i \in Range(top), j \in (1..Len(probs)) \ Range(top) :
                      Before(probs, i, j)

BuiltVector(t) ==
    call[t].err \notin {"NoTrainingData", "FitError", "CorruptArtifact"}

UnknownIds(t) ==
    {s \in InputIds(call[t].symptom_data) : s \notin Range(call[t].used.enc.map)}

C10_UnknownSymptomSkippedByEncoderOnly ==
    \A t \in Threads :
        Returned(t) /\ call[t].op = "hybrid" /\ BuiltVector(t) /\ UnknownIds(t) # {} =>
            LET c == call[t]
                enc == c.used.enc.map
            IN  /\ c.used.model.gen # 0 /\ Len(enc) = c.used.model.n
                   /\ Len(c.used.classes.names) = Len(c.used.model.cc)
                   => c.err = "none"
                /\ Len(c.fv) = Len(enc)
                /\ \A i \in 1..Len(enc) :
                      c.fv[i] = IF enc[i] \in InputIds(c.symptom_data)
                                THEN SeverityOf(c.symptom_data, enc[i]) ELSE 0
                /\ c.err = "none" =>
                      \A s \in UnknownIds(t), d \in diseases :
                          dsw[d][s] > 0 =>
                              /\ d \in Diseases(c.rule)
                              /\ InputIds(c.symptom_data) \cap KnownSymptomsOf(d) = {s}
                                 /\ c.user = NoUser
                                 => ConfIn(c.rule, d)
                                      = RoundDiv(4000 + Cardinality(KnownSymptomsOf(d))
                                                        * 600 * SeverityOf(c.symptom_data, s),
                                                 Cardinality(KnownSymptomsOf(d)))

C10_Witness ==
    \E t \in Threads :
        /\ Returned(t) /\ call[t].op = "hybrid" /\ call[t].err = "none"
        /\ \E s \in UnknownIds(t), d \in diseases :
              /\ dsw[d][s] > 0
              /\ InputIds(call[t].symptom_data) \cap KnownSymptomsOf(d) = {s}
              /\ d \in Diseases(call[t].rule)
        /\ call[t].fv = Zeros(Len(call[t].used.enc.map))
        /\ call[t].fv # << >>

\* C11: every feature vector built for training or for prediction is as long
\* as the symptom mapping, and each slot holds the weight (or the observed
\* severity) of its symptom divided by 10, 0 when absent: every slot lies in
\* [0,1].  The vectors of the model hold the numbers the code stores.
C11_VectorsNormalised ==
    \A t \in Threads :
        /\ Returned(t) /\ IsPredict(t) /\ BuiltVector(t) =>
              LET c == call[t]
                  enc == c.used.enc.map
              IN  /\ Len(c.fv) = Len(enc)
                  /\ \A i \in 1..Len(enc) :
                        /\ 10 * c.fv[i] = IF enc[i] \in InputIds(c.symptom_data)
                                          THEN SeverityOf(c.symptom_data, enc[i]) ELSE 0
                        /\ c.fv[i] \in 0..1
        /\ call[t].pc = "t_check" =>
              \A j \in 1..Len(call[t].X) :
                  /\ Len(call[t].X[j]) = Len(genEnc[call[t].gen])
                  /\ \A i \in 1..Len(call[t].X[j]) : call[t].X[j][i] \in 0..1

\* The integer conf is N/D rounded to the nearest integer (D > 0).
Nearest(conf, N, D) == 2 * (conf * D - N) <= D /\ 2 * (N - conf * D) <= D

\* The symptoms of the input that disease d holds, and sums over them.
Overlap(d, sd) == {s \in SymIds : dsw[d][s] >= 1 /\ \E i \in 1..Len(sd) : sd[i].id = s}

HeldBy(d) == {s \in SymIds : dsw[d][s] >= 1}

WeightOver(d, S) == SumOver(S, [s \in S |-> dsw[d][s]])

WeightedSeverityOver(d, sd, S) == SumOver(S, [s \in S |-> dsw[d][s] * SeverityOf(sd, s)])

Overlapping(sd) == {d \in diseases : Overlap(d, sd) # {}}

Scored(t) == Returned(t) /\ call[t].op \in {"score", "request"} /\ call[t].status \notin {400}

\* C12: without a user, the rule confidence of a disease is 0.4 x
\* match_percentage + 0.6 x weight_percentage rounded to 2 decimals, with
\* match_percentage = overlap / symptoms of the disease x 100 and
\* weight_percentage = sum(weight x severity / 10) / sum(weight) x 100 over the
\* overlap; a disease whose every symptom is reported at severity 10 scores
\* 100.0.  In hundredths: 4000 x m / T + 600 x S / W.
C12_RuleConfidenceFormula ==
    \A t \in Threads :
        Scored(t) /\ call[t].user = NoUser =>
            LET c == call[t]
                sd == c.symptom_data
            IN  /\ Cardinality(Overlapping(sd)) <= RuleCut =>
                      Overlapping(sd) \subseteq Diseases(c.rule)
                /\ \A i \in 1..Len(c.rule) :
                      LET d == c.rule[i].disease
                          O == Overlap(d, sd)
                          m == Cardinality(O)
                          T == Cardinality(HeldBy(d))
                          W == WeightOver(d, O)
                          S == WeightedSeverityOver(d, sd, O)
                      IN  /\ m >= 1
                          /\ Nearest(c.rule[i].confidence, 4000 * m * W + 600 * S * T, T * W)
                          /\ O = HeldBy(d) /\ (\A s \in O : SeverityOf(sd, s) = 10)
                             => c.rule[i].confidence = 10000

C12_Witness ==
    \E t \in Threads :
        /\ Scored(t) /\ call[t].user = NoUser
        /\ \E i \in 1..Len(call[t].rule) :
              LET d == call[t].rule[i].disease
              IN  /\ Cardinality(HeldBy(d)) = 2
                  /\ Overlap(d, call[t].symptom_data) = HeldBy(d)
                  /\ \A s \in HeldBy(d) : SeverityOf(call[t].symptom_data, s) = 10
                  /\ call[t].rule[i].confidence = 10000

WeightsInRange == \A d \in DisIds, s \in SymIds : dsw[d][s] \in 0..10

SeveritiesInRange(sd) == \A i \in 1..Len(sd) : sd[i].severity \in 1..10

\* C13: with weights in [1,10] and severities in [1,10], whatever the user's
\* history, every confidence the rule-based matcher returns lies in [0,100],
\* also after the personalization bonus was added.
C13_RuleConfidenceInRange ==
    \A t \in Threads :
        Scored(t) /\ WeightsInRange /\ SeveritiesInRange(call[t].symptom_data) =>
            \A i \in 1..Len(call[t].rule) : call[t].rule[i].confidence \in 0..10000

C13_Witness ==
    \E t \in Threads :
        /\ Scored(t) /\ WeightsInRange /\ SeveritiesInRange(call[t].symptom_data)
        /\ call[t].user # NoUser
        /\ \E i \in 1..Len(call[t].rule) :
              /\ call[t].rule[i].confidence = 10000
              /\ UserHistory(call[t].user, call[t].rule[i].disease) >= 5
              /\ \A s \in HeldBy(call[t].rule[i].disease) :
                    SeverityOf(call[t].symptom_data, s) = 10

\* The stored predictions of disease d with confidence >= 70 that belong to
\* submissions of `user`, in the tables as the call found them.
OwnHighPredictions(t, user, d) ==
    {i \in 1..Len(call[t].before.dpreds) :
        /\ call[t].before.dpreds[i].disease = d
        /\ call[t].before.dpreds[i].conf >= 7000
        /\ call[t].before.submissions[call[t].before.dpreds[i].sub].user = user}

ExpectedBonus(t, d) ==
    IF call[t].user = NoUser THEN 0
    ELSE Min2(3 * Cardinality(OwnHighPredictions(t, call[t].user, d)), 15)

\* C14: the bonus added to a disease's rule confidence is min(3 x c, 15), c
\* the number of the requesting user's stored predictions of that disease
\* with confidence >= 70; it is 0 without a user, and predictions of other
\* users do not count.  The confidence is the base confidence, plus that
\* bonus and capped at 100 when there is one, rounded.
C14_PersonalizationBonus ==
    \A t \in Threads :
        Scored(t) =>
            \A i \in 1..Len(call[t].rule) :
                LET d == call[t].rule[i].disease
                    sd == call[t].symptom_data
                    O == Overlap(d, sd)
                    T == Cardinality(HeldBy(d))
                    W == WeightOver(d, O)
                    S == WeightedSeverityOver(d, sd, O)
                    base == 4000 * Cardinality(O) * W + 600 * S * T
                    b == ExpectedBonus(t, d)
                    N == IF b = 0 THEN base
                         ELSE Min2(base + 100 * b * T * W, 10000 * T * W)
                IN  Nearest(call[t].rule[i].confidence, N, T * W)

C14_Witness ==
    \E t \in Threads :
        /\ Scored(t) /\ call[t].user # NoUser
        /\ \E i, j \in 1..Len(call[t].rule) :
              /\ ExpectedBonus(t, call[t].rule[i].disease) = 6
              /\ call[t].rule[i].confidence < 10000
              /\ ExpectedBonus(t, call[t].rule[j].disease) = 0
              /\ OwnHighPredictions(t, OtherUser, call[t].rule[j].disease) # {}

\* The exact (unrounded) rule confidence of disease d for call t, as the
\* fraction N / D of hundredths.
ExactNum(t, d) ==
    LET sd == call[t].symptom_data
        O == Overlap(d, sd)
        T == Cardinality(HeldBy(d))
        W == WeightOver(d, O)
        base == 4000 * Cardinality(O) * W + 600 * WeightedSeverityOver(d, sd, O) * T
        b == ExpectedBonus(t, d)
    IN  IF b = 0 THEN base ELSE Min2(base + 100 * b * T * W, 10000 * T * W)

ExactDen(t, d) ==
    Cardinality(HeldBy(d)) * WeightOver(d, Overlap(d, call[t].symptom_data))

\* C15: the rule-based matcher returns only diseases that share a symptom
\* with the input, each at most once (so nothing for an empty input), in
\* non-increasing order of confidence, at most 5 of them: all overlapping
\* diseases when there are at most 5, else 5 of them, none scoring below an
\* overlapping disease that was left out.
C15_RuleOutputShape ==
    \A t \in Threads :
        Scored(t) =>
            LET c == call[t]
                sd == c.symptom_data
                n == Len(c.rule)
            IN  /\ Diseases(c.rule) \subseteq Overlapping(sd)
                /\ \A i, j \in 1..n : i < j =>
                      /\ c.rule[i].disease # c.rule[j].disease
                      /\ c.rule[i].confidence >= c.rule[j].confidence
                /\ n = Min2(RuleCut, Cardinality(Overlapping(sd)))
                /\ sd = << >> => c.rule = << >>
                /\ \A d \in Overlapping(sd) \ Diseases(c.rule) :
                      \A i \in 1..n :
                          2 * (ExactNum(t, d) - c.rule[i].confidence * ExactDen(t, d))
                             <= ExactDen(t, d)

C15_Witness ==
    \E t \in Threads :
        /\ Scored(t)
        /\ Cardinality(Overlapping(call[t].symptom_data)) > RuleCut
        /\ Len(call[t].rule) = RuleCut
        /\ call[t].rule[1].confidence > call[t].rule[RuleCut].confidence
        /\ Overlapping(call[t].symptom_data) \ Diseases(call[t].rule) # {}

\* The confidence list `list` gives disease d; 0 when d is absent from it.
SideConfidence(list, d) ==
    LET I == {i \in 1..Len(list) : list[i].disease = d}
    IN  IF I = {} THEN 0 ELSE list[CHOOSE i \in I : TRUE].confidence

\* C16: the combined list has exactly one entry per disease of the union of
\* the ML list and the rule list, and its final confidence is
\* 0.6 x ml + 0.4 x rule rounded to 2 decimals, a side that lacks the
\* disease counting as 0; ml = [(A, 50)] with rule = [(A, 50)] combines to
\* [(A, 50.0)].
C16_CombinerFormula ==
    \A t \in Threads :
        Scored(t) =>
            LET c == call[t]
            IN  /\ Diseases(c.combined) = Diseases(c.ml) \cup Diseases(c.rule)
                /\ Len(c.combined) = Cardinality(Diseases(c.combined))
                /\ \A i \in 1..Len(c.combined) :
                      LET m == SideConfidence(c.ml, c.combined[i].disease)
                          r == SideConfidence(c.rule, c.combined[i].disease)
                      IN  Nearest(c.combined[i].confidence, 6 * m + 4 * r, 10)
                /\ \A d \in diseases :
                      /\ c.ml = <<[disease |-> d, confidence |-> 5000]>>
                      /\ c.rule = <<[disease |-> d, confidence |-> 5000]>>
                      => c.combined = <<[disease |-> d, confidence |-> 5000]>>

C16_Witness ==
    \E t \in Threads, d \in diseases :
        /\ Scored(t)
        /\ call[t].ml = <<[disease |-> d, confidence |-> 5000]>>
        /\ call[t].rule = <<[disease |-> d, confidence |-> 5000]>>
        /\ call[t].combined = <<[disease |-> d, confidence |-> 5000]>>

\* The position at which the combiner first meets disease d: its place in
\* the ML list, else its place in the rule list after all of the ML list.
IndexIn(list, d) == CHOOSE i \in 1..Len(list) : list[i].disease = d

Encounter(c, d) ==
    IF d \in Diseases(c.ml) THEN IndexIn(c.ml, d)
    ELSE Len(c.ml) + IndexIn(c.rule, d)

\* C17: the hybrid result is the first 3 entries of the combined list, which
\* is in non-increasing order of final confidence with entries of equal
\* confidence in the order the combiner met them (ML list first, then the
\* diseases only the rule list has); a request stores the returned entries
\* with rank 1, 2, 3 in that order.
C17_HybridTopThree ==
    \A t \in Threads :
        Scored(t) =>
            LET c == call[t]
                n == Len(c.combined)
                k == Len(c.result)
            IN  /\ k = Min2(HybridCut, n)
                /\ \A i \in 1..k : c.result[i] = c.combined[i]
                /\ \A i, j \in 1..n : i < j =>
                      /\ c.combined[i].confidence >= c.combined[j].confidence
                      /\ c.combined[i].confidence = c.combined[j].confidence
                         => Encounter(c, c.combined[i].disease)
                              < Encounter(c, c.combined[j].disease)
                /\ c.status = 201 =>
                      /\ Len(dpreds) = Len(c.before.dpreds) + k
                      /\ \A i \in 1..k :
                            LET row == dpreds[Len(c.before.dpreds) + i]
                            IN  /\ row.rank = i
                                /\ row.disease = c.result[i].disease
                                /\ row.conf = c.result[i].confidence
                                /\ row.sub = Len(submissions)

C17_Witness ==
    \E t \in Threads :
        LET c == call[t]
        IN  /\ Scored(t) /\ c.status = 201
            /\ Len(c.combined) > HybridCut
            /\ Len(c.result) = HybridCut
            /\ c.combined[1].confidence > c.combined[HybridCut].confidence
            /\ c.combined[HybridCut].confidence = c.combined[HybridCut + 1].confidence
            /\ \E i, j \in 1..Len(c.combined) :
                  /\ i < j
                  /\ c.combined[i].confidence = c.combined[j].confidence
                  /\ c.combined[i].disease \in Diseases(c.ml)
                  /\ c.combined[j].disease \notin Diseases(c.ml)
            /\ dpreds[Len(dpreds)].rank = HybridCut

\* C18: when the ML list and the rule list are both empty, the hybrid predict
\* returns an empty list without raising; the request is answered 404 and
\* leaves the stored submissions, their symptoms and the stored predictions
\* as they were.
C18_NoMatchStoresNothing ==
    \A t \in Threads :
        Scored(t) /\ call[t].ml = << >> /\ call[t].rule = << >> =>
            /\ call[t].result = << >>
            /\ call[t].err = "none"
            /\ call[t].op = "request" =>
                  /\ call[t].status = 404
                  /\ submissions = call[t].before.submissions
                  /\ dpreds = call[t].before.dpreds

C18_Witness ==
    \E t \in Threads :
        /\ Scored(t) /\ call[t].op = "request"
        /\ call[t].symptom_data # << >>
        /\ call[t].ml = << >> /\ call[t].rule = << >>
        /\ call[t].status = 404
        /\ submissions = call[t].before.submissions

\* The category the thresholds give for a score in hundredths.
CategoryOfScore(score) ==
    IF score <= 3000 THEN "NORMAL"
    ELSE IF score <= 7000 THEN "MODERATE"
    ELSE "RISKY"

\* C19: for every list of observations with severities in [1,10], the empty
\* list included (score 0), the returned severity score lies in [0,100] and
\* the returned category is the one the thresholds give for the returned
\* score: NORMAL up to 30, MODERATE above 30 up to 70, RISKY above 70.
C19_CategoryOfReturnedScore ==
    \A t \in Threads :
        /\ Returned(t) /\ call[t].op = "severity"
        /\ SeveritiesInRange(call[t].symptom_data)
        => /\ call[t].severity_score \in 0..10000
           /\ call[t].symptom_data = << >> => call[t].severity_score = 0
           /\ call[t].severity_category = CategoryOfScore(call[t].severity_score)

\* The highest weight any disease gives symptom s, in the tables as the call
\* found them (the request does not change them); 5 when no disease has it.
HighestWeight(s) ==
    LET W == {dsw[d][s] : d \in DisIds} \ {0}
    IN  IF W = {} THEN 5 ELSE CHOOSE w \in W : \A x \in W : x <= w

\* C20: every observation a validated request hands to the predictor has a
\* severity in [1,10]: a supplied severity is kept, an omitted one is
\* replaced by the highest weight among the diseases that reference the
\* symptom, or by 5 when none does.
C20_ValidatedSeverityInRange ==
    \A t \in Threads :
        Returned(t) /\ call[t].op = "request" /\ call[t].status # 400 =>
            LET raw == call[t].raw
                sd == call[t].symptom_data
            IN  /\ Len(sd) = Len(raw)
                /\ \A i \in 1..Len(sd) :
                      /\ sd[i].id = raw[i].id
                      /\ sd[i].severity \in 1..10
                      /\ raw[i].severity # NULL => sd[i].severity = raw[i].severity
                      /\ raw[i].severity = NULL => sd[i].severity = HighestWeight(sd[i].id)

\* The positions (oldest first) of the submissions that have a primary
\* prediction, and how many of them the cap lets through.
HavePrimary ==
    SelectSeq([i \in 1..Len(submissions) |-> i],
              LAMBDA i : submissions[i].primary # NULL)

Kept == Min2(Len(HavePrimary), HistoryCap)

\* C21: the training set holds one sample per disease and one per submission
\* among the 1000 most recent submissions that have a primary prediction,
\* newest first, and nothing else; train returns the number of samples, the
\* number of distinct labels and the size of the symptom mapping.
C21_TrainingSetAndCounts ==
    \A t \in Threads :
        LET c == call[t]
            nd == Cardinality(diseases)
            P == HavePrimary
            kept == Kept
        IN  /\ c.op = "train" /\ c.pc \in {"t_check", "t_fit"} =>
                  /\ Len(c.X) = nd + kept
                  /\ Len(c.y) = Len(c.X)
                  /\ {c.y[k] : k \in 1..nd} = diseases
                  /\ \A k \in 1..kept :
                        LET sub == submissions[P[Len(P) + 1 - k]]
                        IN  /\ c.y[nd + k] = sub.primary
                            /\ Len(c.X[nd + k]) = Cardinality(symptoms)
                            /\ \A n \in 1..Len(c.X[nd + k]) :
                                  c.X[nd + k][n] = sub.syms[pred[c.p].enc.map[n]]
            /\ c.op = "train" /\ Returned(t) /\ c.err = "none" =>
                  LET r == TrainResult(c, pred[c.p])
                  IN  /\ r.samples_trained = nd + kept
                      /\ r.diseases
                           = Cardinality(diseases
                                         \cup {submissions[P[Len(P) + 1 - k]].primary :
                                                  k \in 1..kept})
                      /\ r.symptoms = Cardinality(symptoms)

C21_Witness ==
    \E t \in Threads :
        /\ call[t].op = "train" /\ Returned(t) /\ call[t].err = "none"
        /\ Len(HavePrimary) > HistoryCap
        /\ \E i \in 1..Len(submissions) : submissions[i].primary = NULL
        /\ TrainResult(call[t], pred[call[t].p]).samples_trained
             = Cardinality(diseases) + HistoryCap

\* The bullet glyphs, and a line with its leading whitespace and bullet
\* glyphs and its trailing whitespace removed.
Bullets == {"bullet", "-", "*"}

Unbulleted(line) == rstrip(lstrip(line, Whitespace \cup Bullets), Whitespace)

\* C22: the formatter returns one string per input line that is not empty
\* once its bullets and surrounding whitespace are removed, in the order of
\* the lines; no returned string is empty, begins or ends with whitespace,
\* or begins with a bullet glyph.
C22_FormatterOutput ==
    \A t \in Threads :
        Returned(t) /\ call[t].op = "format" =>
            LET out == call[t].recommendations
                lines == split(call[t].text_field)
                kept == SelectSeq([i \in 1..Len(lines) |-> i],
                                  LAMBDA i : Unbulleted(lines[i]) # << >>)
            IN  /\ Len(out) = Len(kept)
                /\ \A k \in 1..Len(out) :
                      /\ out[k] # << >>
                      /\ Head(out[k]) \notin Whitespace \cup Bullets
                      /\ out[k][Len(out[k])] \notin Whitespace

IsPrefix(s, t) == Len(s) <= Len(t) /\ SubSeq(t, 1, Len(s)) = s

\* Thread t's request ends in this step with a non-empty ranked list.
Answers(t) ==
    /\ call[t].pc # "done" /\ call'[t].pc = "done"
    /\ call'[t].op = "request" /\ call'[t].result # << >>

\* C23: a request that returns a non-empty ranked list stores exactly one
\* submission, whose primary prediction is the rank-1 disease, and one
\* prediction per returned entry with ranks 1..N in list order; no other
\* prediction, training or read step stores anything, and none of them
\* changes a submission or prediction already stored.
C23_RecordsCreatedOnceNeverChanged ==
    [][kbOps' = kbOps =>
          /\ IsPrefix(submissions, submissions')
          /\ IsPrefix(dpreds, dpreds')
          /\ (\A t \in Threads : ~Answers(t)) =>
                submissions' = submissions /\ dpreds' = dpreds
          /\ \A t \in Threads :
                Answers(t) =>
                    LET res == call'[t].result
                        n == Len(submissions')
                    IN  /\ n = Len(submissions) + 1
                        /\ submissions'[n].primary = res[1].disease
                        /\ Len(dpreds') = Len(dpreds) + Len(res)
                        /\ \A k \in 1..Len(res) :
                              LET row == dpreds'[Len(dpreds) + k]
                              IN  /\ row.sub = n
                                  /\ row.rank = k
                                  /\ row.disease = res[k].disease
                                  /\ row.conf = res[k].confidence]_vars

C23_Witness ==
    \E t \in Threads :
        /\ Returned(t) /\ call[t].op = "request" /\ call[t].status = 201
        /\ Len(call[t].result) >= 2
        /\ call[t].before.submissions # << >>
        /\ trainReturned > 0
        /\ Len(submissions) = Len(call[t].before.submissions) + 1
        /\ dpreds[Len(dpreds)].rank = Len(call[t].result)

\* The shared instance holds the complete outcome of one train().
WhollyTrained(ps) ==
    ps.is_trained /\ ps.model.gen # 0
    /\ ps.enc.gen = ps.model.gen /\ ps.classes.gen = ps.model.gen

Served(t, ops) ==
    /\ http'[t] # http[t]
    /\ http'[t].pc = "done"
    /\ http'[t].op \in ops

\* C25: the 'me' endpoint with a valid access-token cookie returns the user
\* with refreshed = False and sets no cookie; with an access-token cookie
\* that is invalid or expired and a valid refresh-token cookie it returns 200
\* with refreshed = True and sets a new access_token cookie; with an invalid
\* access token and no valid refresh token it returns 401 and sets no cookie.
C25_MeContract ==
    [][\A t \in Threads :
          Served(t, {"me"}) =>
             LET answer == http'[t]
                 access == answer.cookies.access
                 refresh == answer.cookies.refresh
             IN  /\ ValidAccess(access) =>
                       /\ answer.status = 200
                       /\ answer.user = access.user
                       /\ ~answer.refreshed
                       /\ answer.set_access = NoCookie
                 /\ (access # NoCookie /\ ~ValidAccess(access) /\ ValidRefresh(refresh)) =>
                       /\ answer.status = 200
                       /\ answer.refreshed
                       /\ answer.set_access # NoCookie
                 /\ (~ValidAccess(access) /\ ~ValidRefresh(refresh)) =>
                       /\ answer.status = 401
                       /\ answer.set_access = NoCookie]_vars

\* C26: a logout that is served blacklists the refresh token of its
\* refresh_token cookie and clears both token cookies, and once a logout has
\* returned, a request carrying that refresh token gets no new access token
\* from the refresh endpoint or from the 'me' endpoint.
C26_LogoutRevokes ==
    [][\A t \in Threads :
          /\ (Served(t, {"logout"}) /\ http'[t].status = 200) =>
                LET refresh == http'[t].cookies.refresh
                IN  /\ http'[t].deleted = {"access_token", "refresh_token"}
                    /\ refresh \in minted => refresh \in blacklist' \cup expired'
                    /\ ValidRefresh(refresh) => refresh \in blacklist' \ blacklist
          /\ (Served(t, {"refresh", "me"}) /\ http'[t].cookies.refresh \in loggedOut) =>
                /\ http'[t].set_access = NoCookie
                /\ ~http'[t].refreshed
                /\ minted' = minted]_vars

\* A refresh request without an access cookie was refused although its
\* refresh token has not run out: a logout had blacklisted it.
C26_Witness ==
    \E t \in Threads :
       /\ http[t].op = "refresh"
       /\ http[t].pc = "done"
       /\ http[t].status = 401
       /\ http[t].cookies.access = NoCookie
       /\ http[t].cookies.refresh \in (loggedOut \cap blacklist) \ expired

NoSharedNameOrAddress ==
    \A i, j \in 1..Len(users) :
       i # j => /\ ~iexact(users[i].username, users[j].username)
                /\ ~iexact(users[i].email, users[j].email)

\* C27: a Register whose username or email equals an existing user's,
\* ignoring case, returns 400 and leaves the users unchanged, so after any
\* interleaving of Register calls no two users share a username or an email
\* ignoring case.
C27_RegisterKeepsUsersDistinct ==
    [][/\ \A t \in Threads :
            (/\ Served(t, {"register"})
             /\ \E i \in 1..Len(users) :
                   \/ iexact(users[i].username, http'[t].username)
                   \/ iexact(users[i].email, http'[t].email)) =>
               /\ http'[t].status = 400
               /\ users' = users
       /\ NoSharedNameOrAddress']_vars

\* What an instance holds in memory, without the marks of who wrote it.
Held(ps) ==
    [is_trained |-> ps.is_trained, symptom_encoder |-> ps.enc.map,
     classes |-> ps.classes.names,
     model |-> [n |-> ps.model.n, cc |-> ps.model.cc, fc |-> ps.model.fc]]

\* C28: a Train that fails on an empty training set leaves the instance's
\* model, label encoding, symptom-slot mapping and trained flag as they
\* were: no step of such a call changes any of them.
C28_FailedTrainKeepsPredictor ==
    [][\A t \in Threads :
          (call'[t] # call[t] /\ call'[t].op = "train" /\ call'[t].samples = 0) =>
             Held(pred'[call'[t].p]) = Held(pred[call'[t].p])]_vars

\* The bonus a call by `user` would add to disease d now (lines 238-239).
HistoryBonus(user, d) == Min2(3 * UserHistory(user, d), 15)

\* The rows this step added to the stored predictions.
AddedRows == {i \in 1..Len(dpreds') : i > Len(dpreds)}

\* C29: while the knowledge base is not edited, the bonus of a user for a
\* disease never decreases from one call to the next, never exceeds 15, and
\* grows only when a prediction of that disease with stored confidence >= 70
\* is stored for a submission of that user.
C29_BonusGrowsOnlyByOwnHighPredictions ==
    [][kbOps' = kbOps =>
          \A u \in Users \cup {OtherUser}, d \in DisIds :
             /\ HistoryBonus(u, d)' >= HistoryBonus(u, d)
             /\ HistoryBonus(u, d)' <= 15
             /\ HistoryBonus(u, d)' > HistoryBonus(u, d) =>
                   \E i \in AddedRows :
                      /\ dpreds'[i].disease = d
                      /\ dpreds'[i].conf >= 7000
                      /\ submissions'[dpreds'[i].sub].user = u]_vars

\* A request of a user has returned and the bonus of one of its diseases is
\* now higher than the bonus the request was scored with, while the bonus of
\* another disease it stored, below 70, is what it was.
C29_Witness ==
    \E t \in Threads :
       /\ Returned(t) /\ call[t].op = "request" /\ call[t].user # NoUser
       /\ Len(dpreds) > Len(call[t].before.dpreds)
       /\ \E d \in DisIds : HistoryBonus(call[t].user, d) > ExpectedBonus(t, d)
       /\ \E i \in 1..Len(dpreds) :
             /\ i > Len(call[t].before.dpreds)
             /\ dpreds[i].conf < 7000
             /\ HistoryBonus(call[t].user, dpreds[i].disease)
                   = ExpectedBonus(t, dpreds[i].disease)

\* C30: the list the hybrid predict returns holds no disease twice and every
\* confidence in it lies in [0,100], so the predictions stored from it, one
\* per entry, keep (submission, disease) unique and their confidence in
\* [0,100].
C30_ResultFitsStoredPredictions ==
    /\ \A t \in Threads :
          Scored(t) =>
             /\ \A i, j \in 1..Len(call[t].result) :
                   i # j => call[t].result[i].disease # call[t].result[j].disease
             /\ \A i \in 1..Len(call[t].result) :
                   call[t].result[i].confidence \in 0..10000
    /\ \A i, j \in 1..Len(dpreds) :
          i # j => <<dpreds[i].sub, dpreds[i].disease>> # <<dpreds[j].sub, dpreds[j].disease>>
    /\ \A i \in 1..Len(dpreds) : dpreds[i].conf \in 0..10000

====
